---- MODULE Spec2Model ----
(***************************************************************************)
(* Model of the mortgage calculator demo: the shared amortization math,    *)
(* the purchase, refinance, reverse mortgage, cash-out, rate buydown and   *)
(* rent-vs-buy screens.                                                    *)
(*                                                                         *)
(* A JavaScript number is modelled as a record [k, n, d]: k = "fin" is the *)
(* rational n/d in lowest terms (d > 0), k = "nan" is NaN, k = "inf" is    *)
(* +Infinity and k = "ninf" is -Infinity.  Arithmetic is exact on the      *)
(* finite values (no binary rounding, no overflow to Infinity) and follows *)
(* IEEE 754 on the three special values.  Negative zero is not modelled.   *)
(*                                                                         *)
(* The screens that assume a 30-year term raise 1 + r to the 360th power   *)
(* and, in the rent-vs-buy simulation, chain hundreds of operations; the   *)
(* exact rationals of these leave the range of the integers.  There every  *)
(* arithmetic result is rounded to the nearest multiple of 1/Grid, as a    *)
(* double rounds every result to 53 bits (the operations Fl...).           *)
(***************************************************************************)
EXTENDS Integers, Sequences, FiniteSets, TLC

VARIABLES
    activeTab,  \* the mounted calculator screen, App's activeTab
    inputs,     \* the useState cells of the mounted screen
    results,    \* what the render returned: the screen's useMemo, App's children
    call,       \* the function or handler applied last and its arguments
    ret,        \* function harness: the value returned, NoRet before the call
    browser     \* the window: clipboard, clipboard writes in flight, timers

vars == <<activeTab, inputs, results, call, ret, browser>>

(***************************************************************************)
(* Numbers                                                                 *)
(***************************************************************************)
Abs(i) == IF i < 0 THEN -i ELSE i

\* Euclid's algorithm; the remainder is bound to its value before the next
\* step.
RECURSIVE GCD(_, _)
GCD(a, b) ==
    IF b = 0 THEN a ELSE CHOOSE g \in {GCD(b, r) : r \in {a % b}} : TRUE

NaN == [k |-> "nan", n |-> 0, d |-> 1]

PosInf == [k |-> "inf", n |-> 0, d |-> 1]

NegInf == [k |-> "ninf", n |-> 0, d |-> 1]

\* The finite number n/d, d # 0, in lowest terms.
Rat(n, d) ==
    LET g == GCD(Abs(n), Abs(d))
        s == IF d < 0 THEN -1 ELSE 1
    IN  [k |-> "fin", n |-> s * (n \div g), d |-> s * (d \div g)]

Num(i) == [k |-> "fin", n |-> i, d |-> 1]

Zero == Num(0)

One == Num(1)

\* The numbers and the pairs of numbers.  Each operation below is a function
\* on them, so that it works on the values of its operands.
Numbers == [k : {"fin", "nan", "inf", "ninf"}, n : Int, d : Int]

Pairs == Numbers \X Numbers

\* Number.isFinite(x)
IsFinite(x) == x.k = "fin"

\* -1, 0 or 1; not used on NaN.
Sign(x) ==
    CASE x.k = "inf" -> 1
      [] x.k = "ninf" -> -1
      [] OTHER -> IF x.n > 0 THEN 1 ELSE IF x.n < 0 THEN -1 ELSE 0

Signed(s) == IF s > 0 THEN PosInf ELSE IF s < 0 THEN NegInf ELSE NaN

StrictEqOf[p \in Pairs] == p[1].k # "nan" /\ p[2].k # "nan" /\ p[1] = p[2]

\* a === b
StrictEq(a, b) == StrictEqOf[<<a, b>>]

LtOf[p \in Pairs] ==
    /\ p[1].k # "nan"
    /\ p[2].k # "nan"
    /\ IF p[1].k = "fin" /\ p[2].k = "fin"
       THEN LET g == GCD(p[1].d, p[2].d)
            IN  p[1].n * (p[2].d \div g) < p[2].n * (p[1].d \div g)
       ELSE p[1] # p[2] /\ (p[1].k = "ninf" \/ p[2].k = "inf")

\* a < b
Lt(a, b) == LtOf[<<a, b>>]

\* a <= b
Le(a, b) == LtOf[<<a, b>>] \/ StrictEqOf[<<a, b>>]

\* a > b
Gt(a, b) == LtOf[<<b, a>>]

\* a >= b
Ge(a, b) == LtOf[<<b, a>>] \/ StrictEqOf[<<a, b>>]

NegOf[a \in Numbers] ==
    CASE a.k = "fin" -> [a EXCEPT !.n = -a.n]
      [] a.k = "inf" -> NegInf
      [] a.k = "ninf" -> PosInf
      [] OTHER -> NaN

\* -a
Neg(a) == NegOf[a]

AddOf[p \in Pairs] ==
    CASE p[1].k = "nan" \/ p[2].k = "nan" -> NaN
      [] p[1].k = "fin" /\ p[2].k = "fin" ->
            LET g == GCD(p[1].d, p[2].d)
            IN  Rat(p[1].n * (p[2].d \div g) + p[2].n * (p[1].d \div g),
                    (p[1].d \div g) * p[2].d)
      [] p[1].k = "fin" -> p[2]
      [] p[2].k = "fin" -> p[1]
      [] OTHER -> IF p[1] = p[2] THEN p[1] ELSE NaN

\* a + b
Add(a, b) == AddOf[<<a, b>>]

\* a - b
Sub(a, b) == AddOf[<<a, NegOf[b]>>]

MulOf[p \in Pairs] ==
    CASE p[1].k = "nan" \/ p[2].k = "nan" -> NaN
      [] p[1].k = "fin" /\ p[2].k = "fin" ->
            LET g1 == GCD(Abs(p[1].n), p[2].d)
                g2 == GCD(Abs(p[2].n), p[1].d)
            IN  [k |-> "fin",
                 n |-> (p[1].n \div g1) * (p[2].n \div g2),
                 d |-> (p[1].d \div g2) * (p[2].d \div g1)]
      [] OTHER -> Signed(Sign(p[1]) * Sign(p[2]))

\* a * b
Mul(a, b) == MulOf[<<a, b>>]

DivOf[p \in Pairs] ==
    CASE p[1].k = "nan" \/ p[2].k = "nan" -> NaN
      [] p[1].k = "fin" /\ p[2].k = "fin" ->
            IF p[2].n = 0
            THEN Signed(Sign(p[1]))
            ELSE MulOf[<<p[1], Rat(p[2].d, p[2].n)>>]
      [] p[1].k = "fin" -> Zero
      [] p[2].k = "fin" -> Signed(Sign(p[1]) * (IF Sign(p[2]) < 0 THEN -1 ELSE 1))
      [] OTHER -> NaN

\* a / b
Div(a, b) == DivOf[<<a, b>>]

MathMaxOf[p \in Pairs] ==
    IF p[1].k = "nan" \/ p[2].k = "nan"
    THEN NaN
    ELSE IF LtOf[p] THEN p[2] ELSE p[1]

\* Math.max(a, b)
MathMax(a, b) == MathMaxOf[<<a, b>>]

MathMinOf[p \in Pairs] ==
    IF p[1].k = "nan" \/ p[2].k = "nan"
    THEN NaN
    ELSE IF LtOf[<<p[2], p[1]>>] THEN p[2] ELSE p[1]

\* Math.min(a, b)
MathMin(a, b) == MathMinOf[<<a, b>>]

MathAbsOf[a \in Numbers] ==
    IF (a.k = "fin" /\ a.n < 0) \/ a.k = "ninf" THEN NegOf[a] ELSE a

\* Math.abs(a)
MathAbs(a) == MathAbsOf[a]

MathRoundOf[a \in Numbers] ==
    IF a.k = "fin" THEN Num((2 * a.n + a.d) \div (2 * a.d)) ELSE a

\* Math.round(a): the nearest integer, a half rounds up.
MathRound(a) == MathRoundOf[a]

MathCeilOf[a \in Numbers] ==
    IF a.k = "fin" THEN Num(-((-a.n) \div a.d)) ELSE a

\* Math.ceil(a)
MathCeil(a) == MathCeilOf[a]

\* base multiplied by itself e times, e a natural number.
RECURSIVE PowInt(_, _)
PowInt(base, e) == IF e = 0 THEN One ELSE MulOf[<<base, PowInt(base, e - 1)>>]

MathPowOf[p \in Pairs] ==
    CASE p[1].k = "nan" \/ p[2].k = "nan" -> NaN
      [] p[2].k = "inf" ->
            IF LtOf[<<One, p[1]>>]
            THEN PosInf
            ELSE IF LtOf[<<p[1], One>>] THEN Zero ELSE NaN
      [] p[2].k = "ninf" ->
            IF LtOf[<<One, p[1]>>]
            THEN Zero
            ELSE IF LtOf[<<p[1], One>>] THEN PosInf ELSE NaN
      [] p[2].d = 1 /\ p[2].n >= 0 -> PowInt(p[1], p[2].n)
      [] p[2].d = 1 /\ p[2].n < 0 -> DivOf[<<One, PowInt(p[1], -p[2].n)>>]
      [] OTHER -> NaN

\* Math.pow(base, e) for a finite base >= 0.  The calculators only raise
\* 1 + r to a whole number of periods; a fractional exponent is not modelled.
MathPow(base, e) == MathPowOf[<<base, e>>]

(***************************************************************************)
(* Rounded arithmetic                                                      *)
(***************************************************************************)
\* A rounded result keeps this many parts of a unit: four decimal places.
Grid == 10000

\* The multiple of 1/Grid nearest to a finite number, a half rounding up;
\* the special values are kept.
FlOf[a \in Numbers] ==
    IF a.k # "fin"
    THEN a
    ELSE LET g == GCD(Grid, a.d)
             d == a.d \div g
             whole == a.n \div a.d
             rem == a.n % a.d
         IN  Rat(whole * Grid + (rem * (Grid \div g) + d \div 2) \div d, Grid)

Fl(a) == FlOf[a]

\* a + b, rounded
FlAdd(a, b) == FlOf[AddOf[<<a, b>>]]

\* a - b, rounded
FlSub(a, b) == FlOf[AddOf[<<a, NegOf[b]>>]]

\* a * b, rounded
FlMul(a, b) == FlOf[MulOf[<<a, b>>]]

\* a / b, rounded
FlDiv(a, b) == FlOf[DivOf[<<a, b>>]]

\* base to the power e, e a natural number, by squaring, each product
\* rounded.
FlPowInt[p \in Numbers \X Nat] ==
    IF p[2] = 0
    THEN One
    ELSE LET half == FlPowInt[<<p[1], p[2] \div 2>>]
             square == FlOf[MulOf[<<half, half>>]]
         IN  IF p[2] % 2 = 0 THEN square ELSE FlOf[MulOf[<<square, p[1]>>]]

\* Math.pow(base, e), rounded, for a whole exponent e >= 0; like MathPow
\* otherwise.
FlPow(base, e) ==
    IF IsFinite(base) /\ IsFinite(e) /\ e.d = 1 /\ e.n >= 0
    THEN FlPowInt[<<base, e.n>>]
    ELSE MathPowOf[<<base, e>>]

(***************************************************************************)
(* The shared helpers.  Every calculator file carries its own copy of      *)
(* clampNonNegative and formatCurrency; the copies are the same text.      *)
(***************************************************************************)
clampNonNegativeNoFiniteCheck(n) == MathMax(Zero, n)

clampNonNegative(n) == IF IsFinite(n) THEN MathMax(Zero, n) ELSE Zero

\* A displayed text: a fixed part and, where the text carries a number, that
\* number.  Shown("$", 1250) is "$1,250", Shown("mo", 7) is "7 mo",
\* Shown("%", 355) is "35.5%" (tenths), Shown("N/A", 0) is "N/A".
Shown(text, amount) == [text |-> text, amount |-> amount]

Dollars(amount) == Shown("$", amount)

formatCurrency(value) ==
    IF ~IsFinite(value)
    THEN Dollars(0)
    ELSE Dollars(MathMax(Zero, MathRound(value)).n)

\* The texts a screen shows are computed from `results`, the values its memo
\* returned at the last render.

(***************************************************************************)
(* Monthly principal and interest (PurchaseCalculator.tsx)                 *)
(***************************************************************************)
\* As the function, with the guard testing P alone.
monthlyPIGuardWithoutPeriods(principal, annualRatePercent, termYears) ==
    LET P == clampNonNegative(principal)
        years == clampNonNegative(termYears)
        n == MathRound(Mul(years, Num(12)))
    IN  IF StrictEq(P, Zero)
        THEN Zero
        ELSE LET annualRate == Div(clampNonNegative(annualRatePercent), Num(100))
                 r == Div(annualRate, Num(12))
             IN  IF StrictEq(r, Zero)
                 THEN Div(P, n)
                 ELSE LET pow == MathPow(Add(One, r), n)
                      IN  Div(Mul(Mul(P, r), pow), Sub(pow, One))

\* As the function, with the zero-rate branch dividing by the unrounded
\* number of months.
monthlyPIUnroundedPeriods(principal, annualRatePercent, termYears) ==
    LET P == clampNonNegative(principal)
        years == clampNonNegative(termYears)
        n == MathRound(Mul(years, Num(12)))
    IN  IF StrictEq(P, Zero) \/ StrictEq(n, Zero)
        THEN Zero
        ELSE LET annualRate == Div(clampNonNegative(annualRatePercent), Num(100))
                 r == Div(annualRate, Num(12))
             IN  IF StrictEq(r, Zero)
                 THEN Div(P, Mul(years, Num(12)))
                 ELSE LET pow == MathPow(Add(One, r), n)
                      IN  Div(Mul(Mul(P, r), pow), Sub(pow, One))

\* As the function, with pow + 1 as the divisor.
monthlyPIWrongDivisor(principal, annualRatePercent, termYears) ==
    LET P == clampNonNegative(principal)
        years == clampNonNegative(termYears)
        n == MathRound(Mul(years, Num(12)))
    IN  IF StrictEq(P, Zero) \/ StrictEq(n, Zero)
        THEN Zero
        ELSE LET annualRate == Div(clampNonNegative(annualRatePercent), Num(100))
                 r == Div(annualRate, Num(12))
             IN  IF StrictEq(r, Zero)
                 THEN Div(P, n)
                 ELSE LET pow == MathPow(Add(One, r), n)
                      IN  Div(Mul(Mul(P, r), pow), Add(pow, One))

\* As the function, with the straight-line payment discounted by the
\* interest instead of the annuity formula.
monthlyPIDiscounted(principal, annualRatePercent, termYears) ==
    LET P == clampNonNegative(principal)
        years == clampNonNegative(termYears)
        n == MathRound(Mul(years, Num(12)))
    IN  IF StrictEq(P, Zero) \/ StrictEq(n, Zero)
        THEN Zero
        ELSE LET annualRate == Div(clampNonNegative(annualRatePercent), Num(100))
                 r == Div(annualRate, Num(12))
             IN  IF StrictEq(r, Zero)
                 THEN Div(P, n)
                 ELSE LET pow == MathPow(Add(One, r), n)
                      IN  Div(Div(P, n), pow)

calculateMonthlyPrincipalAndInterest(principal, annualRatePercent, termYears) ==
    LET P == clampNonNegative(principal)
        years == clampNonNegative(termYears)
        n == MathRound(Mul(years, Num(12)))
    IN  IF StrictEq(P, Zero) \/ StrictEq(n, Zero)
        THEN Zero
        ELSE LET annualRate == Div(clampNonNegative(annualRatePercent), Num(100))
                 r == Div(annualRate, Num(12))
             IN  IF StrictEq(r, Zero)
                 THEN Div(P, n)
                 ELSE LET pow == MathPow(Add(One, r), n)
                      IN  Div(Mul(Mul(P, r), pow), Sub(pow, One))

(***************************************************************************)
(* Monthly payment (RentVsBuyCalculator.tsx), in rounded arithmetic: the   *)
(* screen calls it with a term of 30 years.                                *)
(***************************************************************************)
calculateMonthlyPaymentOf[a \in Numbers \X Numbers \X Numbers] ==
    LET P == clampNonNegative(a[1])
        years == clampNonNegative(a[3])
        n == MathRound(FlMul(years, Num(12)))
    IN  IF StrictEq(P, Zero) \/ StrictEq(n, Zero)
        THEN Zero
        ELSE LET annualRate == FlDiv(clampNonNegative(a[2]), Num(100))
                 r == FlDiv(annualRate, Num(12))
             IN  IF StrictEq(r, Zero)
                 THEN FlDiv(P, n)
                 ELSE LET pow == FlPow(FlAdd(One, r), n)
                      IN  FlDiv(FlMul(FlMul(P, r), pow), FlSub(pow, One))

calculateMonthlyPayment(principal, annualRatePercent, termYears) ==
    calculateMonthlyPaymentOf[<<principal, annualRatePercent, termYears>>]

(***************************************************************************)
(* Reverse mortgage availability (ReverseMortgageCalculator.tsx)           *)
(***************************************************************************)
clamp(n, min, max) ==
    IF ~IsFinite(n) THEN min ELSE MathMin(max, MathMax(min, n))

\* As the function, without the cap at 95.
availabilityPctUncapped(age) ==
    LET a == clamp(age, Zero, Num(120))
    IN  IF Lt(a, Num(62))
        THEN Zero
        ELSE IF Le(a, Num(69))
        THEN LET t == Div(Sub(a, Num(62)), Num(69 - 62))
             IN  Add(Rat(35, 100), Mul(t, Sub(Rat(4, 10), Rat(35, 100))))
        ELSE IF Le(a, Num(79))
        THEN LET t == Div(Sub(a, Num(70)), Num(79 - 70))
             IN  Add(Rat(45, 100), Mul(t, Sub(Rat(5, 10), Rat(45, 100))))
        ELSE LET t == Div(Sub(a, Num(80)), Num(95 - 80))
             IN  Add(Rat(55, 100), Mul(t, Sub(Rat(6, 10), Rat(55, 100))))

estimatedAvailabilityPct(age) ==
    LET a == clamp(age, Zero, Num(120))
    IN  IF Lt(a, Num(62))
        THEN Zero
        ELSE IF Le(a, Num(69))
        THEN LET t == Div(Sub(a, Num(62)), Num(69 - 62))
             IN  Add(Rat(35, 100), Mul(t, Sub(Rat(4, 10), Rat(35, 100))))
        ELSE IF Le(a, Num(79))
        THEN LET t == Div(Sub(a, Num(70)), Num(79 - 70))
             IN  Add(Rat(45, 100), Mul(t, Sub(Rat(5, 10), Rat(45, 100))))
        ELSE LET capped == MathMin(a, Num(95))
                 t == Div(Sub(capped, Num(80)), Num(95 - 80))
             IN  Add(Rat(55, 100), Mul(t, Sub(Rat(6, 10), Rat(55, 100))))

(***************************************************************************)
(* The input handlers                                                      *)
(***************************************************************************)
\* parseCurrencyInput(raw) (PurchaseCalculator.tsx), on num = Number(cleaned):
\* cleaned keeps the digits and dots of the typed text, so num is a
\* non-negative number, or NaN when cleaned is no numeral.
parseCurrencyInput(num) == IF IsFinite(num) THEN num ELSE Zero

\* CurrencyField's onChange, up to setValue's argument.
CurrencyFieldValue(num) == clampNonNegative(parseCurrencyInput(num))

\* NumberField's, NumberInput's and MoneyInput's onChange, up to the setter's
\* argument; num is Number(e.target.value).
NumberFieldValue(num) == clampNonNegative(num)

(***************************************************************************)
(* PurchaseCalculator                                                      *)
(***************************************************************************)
formatMonthly(value) == Dollars(MathMax(Zero, MathRound(value)).n)

\* As the memo, with the loan not floored at 0.
PurchaseMemoLoanNotFloored(in) ==
    LET loan == Sub(in.homePrice, in.downPayment)
        pi == calculateMonthlyPrincipalAndInterest(
                  loan, in.interestRatePercent, in.loanTermYears)
        tax == Div(clampNonNegative(in.annualPropertyTax), Num(12))
        ins == Div(clampNonNegative(in.annualHomeInsurance), Num(12))
        total == Add(Add(pi, tax), ins)
    IN  [loanAmount |-> loan,
         monthlyPI |-> pi,
         monthlyTax |-> tax,
         monthlyInsurance |-> ins,
         totalMonthlyPayment |-> total]

PurchaseMemo(in) ==
    LET loan == MathMax(Zero, Sub(in.homePrice, in.downPayment))
        pi == calculateMonthlyPrincipalAndInterest(
                  loan, in.interestRatePercent, in.loanTermYears)
        tax == Div(clampNonNegative(in.annualPropertyTax), Num(12))
        ins == Div(clampNonNegative(in.annualHomeInsurance), Num(12))
        total == Add(Add(pi, tax), ins)
    IN  [loanAmount |-> loan,
         monthlyPI |-> pi,
         monthlyTax |-> tax,
         monthlyInsurance |-> ins,
         totalMonthlyPayment |-> total]

PurchaseShown ==
    [loanAmount |-> formatCurrency(results.loanAmount),
     totalMonthlyPayment |-> formatMonthly(results.totalMonthlyPayment),
     monthlyPI |-> formatMonthly(results.monthlyPI),
     monthlyTax |-> formatMonthly(results.monthlyTax),
     monthlyInsurance |-> formatMonthly(results.monthlyInsurance)]

(***************************************************************************)
(* RefinanceCalculator (its text is the second part of src/README.md)      *)
(***************************************************************************)
RefinanceMonthlyPrincipalAndInterest(principal, annualRatePercent, termYears) ==
    LET P == clampNonNegative(principal)
        years == clampNonNegative(termYears)
        n == MathRound(Mul(years, Num(12)))
    IN  IF StrictEq(P, Zero) \/ StrictEq(n, Zero)
        THEN Zero
        ELSE LET annualRate == Div(clampNonNegative(annualRatePercent), Num(100))
                 r == Div(annualRate, Num(12))
             IN  IF StrictEq(r, Zero)
                 THEN Div(P, n)
                 ELSE LET pow == MathPow(Add(One, r), n)
                      IN  Div(Mul(Mul(P, r), pow), Sub(pow, One))

\* As the memo, with the break-even computed whenever savings >= 0.
RefinanceMemoNonNegativeSavings(in) ==
    LET oldPay == RefinanceMonthlyPrincipalAndInterest(
                      in.originalLoanBalance, in.currentRate, in.newTermYears)
        newPay == RefinanceMonthlyPrincipalAndInterest(
                      in.originalLoanBalance, in.newRate, in.newTermYears)
        savings == Sub(oldPay, newPay)
        months == IF Ge(savings, Zero)
                  THEN MathCeil(Div(clampNonNegative(in.closingCosts), savings))
                  ELSE PosInf
    IN  [oldMonthlyPayment |-> oldPay,
         newMonthlyPayment |-> newPay,
         monthlySavings |-> savings,
         breakEvenMonths |-> months]

RefinanceMemo(in) ==
    LET oldPay == RefinanceMonthlyPrincipalAndInterest(
                      in.originalLoanBalance, in.currentRate, in.newTermYears)
        newPay == RefinanceMonthlyPrincipalAndInterest(
                      in.originalLoanBalance, in.newRate, in.newTermYears)
        savings == Sub(oldPay, newPay)
        months == IF Gt(savings, Zero)
                  THEN MathCeil(Div(clampNonNegative(in.closingCosts), savings))
                  ELSE PosInf
    IN  [oldMonthlyPayment |-> oldPay,
         newMonthlyPayment |-> newPay,
         monthlySavings |-> savings,
         breakEvenMonths |-> months]

showBreakEven(breakEvenMonths) ==
    IsFinite(breakEvenMonths) /\ Gt(breakEvenMonths, Zero)

NotApplicable == Shown("N/A", 0)

RefinanceShown ==
    [monthlySavings |->
         IF Ge(results.monthlySavings, Zero)
         THEN formatCurrency(results.monthlySavings)
         ELSE Shown("-$", formatCurrency(MathAbs(results.monthlySavings)).amount),
     breakEven |->
         IF showBreakEven(results.breakEvenMonths)
         THEN Shown("mo", results.breakEvenMonths.n)
         ELSE NotApplicable,
     oldMonthlyPayment |-> formatCurrency(results.oldMonthlyPayment),
     newMonthlyPayment |-> formatCurrency(results.newMonthlyPayment)]

(***************************************************************************)
(* ReverseMortgageCalculator (src/unnamed/part_000)                        *)
(***************************************************************************)
\* As the memo, with the net limit not floored at 0.
ReverseMemoNetNotFloored(in) ==
    LET age == clampNonNegative(in.youngestBorrowerAge)
        eligible == Ge(age, Num(62))
        pct == estimatedAvailabilityPct(age)
        gross == Mul(clampNonNegative(in.homeValue), pct)
        net == Sub(gross, clampNonNegative(in.currentMortgageBalance))
    IN  [availabilityPct |-> pct,
         grossPrincipalLimit |-> gross,
         netPrincipalLimit |-> net,
         ageEligible |-> eligible]

\* As the memo, with eligibility from above 62 only.
ReverseMemoEligibleAbove62(in) ==
    LET age == clampNonNegative(in.youngestBorrowerAge)
        eligible == Gt(age, Num(62))
        pct == estimatedAvailabilityPct(age)
        gross == Mul(clampNonNegative(in.homeValue), pct)
        net == MathMax(Zero, Sub(gross, clampNonNegative(in.currentMortgageBalance)))
    IN  [availabilityPct |-> pct,
         grossPrincipalLimit |-> gross,
         netPrincipalLimit |-> net,
         ageEligible |-> eligible]

ReverseMemo(in) ==
    LET age == clampNonNegative(in.youngestBorrowerAge)
        eligible == Ge(age, Num(62))
        pct == estimatedAvailabilityPct(age)
        gross == Mul(clampNonNegative(in.homeValue), pct)
        net == MathMax(Zero, Sub(gross, clampNonNegative(in.currentMortgageBalance)))
    IN  [availabilityPct |-> pct,
         grossPrincipalLimit |-> gross,
         netPrincipalLimit |-> net,
         ageEligible |-> eligible]

\* The em dash shown for an unavailable value.
Unavailable == Shown("-", 0)

\* `${(pct * 100).toFixed(1)}%`: the percentage to one decimal, in tenths.
PercentText(pct) == Shown("%", MathRound(Mul(Mul(pct, Num(100)), Num(10))).n)

ReverseShown ==
    [notEligibleNotice |-> ~results.ageEligible,
     netPrincipalLimit |->
         IF results.ageEligible
         THEN formatCurrency(results.netPrincipalLimit)
         ELSE Dollars(0),
     availability |->
         IF results.ageEligible
         THEN PercentText(results.availabilityPct)
         ELSE Unavailable,
     grossPrincipalLimit |->
         IF results.ageEligible
         THEN formatCurrency(results.grossPrincipalLimit)
         ELSE Unavailable,
     currentMortgage |-> formatCurrency(inputs.currentMortgageBalance)]

(***************************************************************************)
(* CashOutCalculator                                                       *)
(***************************************************************************)
DEFAULT_TERM_YEARS == 30

MAX_LTV == Rat(8, 10)

\* CashOutCalculator.tsx carries its own copy of the payment function, the
\* same text as calculateMonthlyPayment.
CashOutMonthlyPrincipalAndInterest(principal, annualRatePercent, termYears) ==
    calculateMonthlyPaymentOf[<<principal, annualRatePercent, termYears>>]

\* The memo with the request never capped.
CashOutMemoUncapped(in) ==
    LET homeValue == clampNonNegative(in.currentHomeValue)
        existing == clampNonNegative(in.existingMortgageBalance)
        desired == clampNonNegative(in.desiredCashOutAmount)
        maxLoan == Mul(homeValue, MAX_LTV)
        maxCashOut == MathMax(Zero, Sub(maxLoan, existing))
        loan == Add(existing, desired)
    IN  [maxLoanAllowed |-> maxLoan,
         maxCashOutAllowed |-> maxCashOut,
         adjustedCashOut |-> desired,
         newLoanAmount |-> loan,
         newMonthlyPayment |->
             CashOutMonthlyPrincipalAndInterest(
                 loan, in.newInterestRate, Num(DEFAULT_TERM_YEARS)),
         ltvPercent |->
             IF Gt(homeValue, Zero) THEN Mul(Div(loan, homeValue), Num(100)) ELSE Zero,
         wasCapped |-> Gt(desired, maxCashOut)]

\* The memo with the new loan made of the cash taken out only.
CashOutMemoLoanWithoutBalance(in) ==
    LET homeValue == clampNonNegative(in.currentHomeValue)
        existing == clampNonNegative(in.existingMortgageBalance)
        desired == clampNonNegative(in.desiredCashOutAmount)
        maxLoan == Mul(homeValue, MAX_LTV)
        maxCashOut == MathMax(Zero, Sub(maxLoan, existing))
        cashOut == MathMin(desired, maxCashOut)
        loan == cashOut
    IN  [maxLoanAllowed |-> maxLoan,
         maxCashOutAllowed |-> maxCashOut,
         adjustedCashOut |-> cashOut,
         newLoanAmount |-> loan,
         newMonthlyPayment |->
             CashOutMonthlyPrincipalAndInterest(
                 loan, in.newInterestRate, Num(DEFAULT_TERM_YEARS)),
         ltvPercent |->
             IF Gt(homeValue, Zero) THEN Mul(Div(loan, homeValue), Num(100)) ELSE Zero,
         wasCapped |-> Gt(desired, maxCashOut)]

\* The useMemo of CashOutCalculator.
CashOutMemo(in) ==
    LET homeValue == clampNonNegative(in.currentHomeValue)
        existing == clampNonNegative(in.existingMortgageBalance)
        desired == clampNonNegative(in.desiredCashOutAmount)
        maxLoan == Mul(homeValue, MAX_LTV)
        maxCashOut == MathMax(Zero, Sub(maxLoan, existing))
        cashOut == MathMin(desired, maxCashOut)
        loan == Add(existing, cashOut)
    IN  [maxLoanAllowed |-> maxLoan,
         maxCashOutAllowed |-> maxCashOut,
         adjustedCashOut |-> cashOut,
         newLoanAmount |-> loan,
         newMonthlyPayment |->
             CashOutMonthlyPrincipalAndInterest(
                 loan, in.newInterestRate, Num(DEFAULT_TERM_YEARS)),
         ltvPercent |->
             IF Gt(homeValue, Zero) THEN Mul(Div(loan, homeValue), Num(100)) ELSE Zero,
         wasCapped |-> Gt(desired, maxCashOut)]

\* What the cash-out screen shows: the notice that the request was capped
\* "to keep the new loan at or below 80% of home value", and the amounts.
CashOutShown ==
    [cappedNotice |-> results.wasCapped,
     newMonthlyPayment |-> formatCurrency(results.newMonthlyPayment),
     totalCashInHand |-> formatCurrency(results.adjustedCashOut),
     newLoanAmount |-> formatCurrency(results.newLoanAmount),
     maxLoanAllowed |-> formatCurrency(results.maxLoanAllowed),
     resultingLtv |-> Shown("%", MathRound(Mul(results.ltvPercent, Num(10))).n)]

(***************************************************************************)
(* RateBuydownCalculator                                                   *)
(***************************************************************************)
TERM_YEARS == 30

\* RateBuydownCalculator.tsx carries its own copy of the payment function,
\* the same text as calculateMonthlyPayment.
BuydownMonthlyPrincipalAndInterest(principal, annualRatePercent, termYears) ==
    calculateMonthlyPaymentOf[<<principal, annualRatePercent, termYears>>]

\* The memo with the year 1 rate left below 0.
BuydownMemoFirstRateNotFloored(in) ==
    LET basePayment ==
            BuydownMonthlyPrincipalAndInterest(
                in.loanAmount, in.baseRatePercent, Num(TERM_YEARS))
        y1Rate == Sub(in.baseRatePercent, Num(2))
        y2Rate == MathMax(Zero, Sub(in.baseRatePercent, Num(1)))
        y3Rate == MathMax(Zero, in.baseRatePercent)
        y1Pay == BuydownMonthlyPrincipalAndInterest(in.loanAmount, y1Rate, Num(TERM_YEARS))
        y2Pay == BuydownMonthlyPrincipalAndInterest(in.loanAmount, y2Rate, Num(TERM_YEARS))
        y3Pay == BuydownMonthlyPrincipalAndInterest(in.loanAmount, y3Rate, Num(TERM_YEARS))
    IN  [baseMonthlyPayment |-> basePayment,
         schedule |->
             IF in.buydownType = "temporary-2-1"
             THEN <<[periodLabel |-> "Year 1",
                     ratePercent |-> y1Rate,
                     monthlyPayment |-> y1Pay,
                     annualPayment |-> Mul(y1Pay, Num(12)),
                     savingsMonthly |-> Sub(basePayment, y1Pay),
                     savingsAnnual |-> Mul(Sub(basePayment, y1Pay), Num(12))],
                    [periodLabel |-> "Year 2",
                     ratePercent |-> y2Rate,
                     monthlyPayment |-> y2Pay,
                     annualPayment |-> Mul(y2Pay, Num(12)),
                     savingsMonthly |-> Sub(basePayment, y2Pay),
                     savingsAnnual |-> Mul(Sub(basePayment, y2Pay), Num(12))],
                    [periodLabel |-> "Year 3-30",
                    ratePercent |-> y3Rate,
                    monthlyPayment |-> y3Pay,
                    annualPayment |-> Mul(y3Pay, Num(12))]>>
             ELSE <<[periodLabel |-> "Year 1-30",
                     ratePercent |-> MathMax(Zero, in.baseRatePercent),
                     monthlyPayment |-> basePayment,
                     annualPayment |-> Mul(basePayment, Num(12))]>>]

\* The memo with savings of 0 on the last row of the temporary schedule.
BuydownMemoZeroSavingsLastRow(in) ==
    LET basePayment ==
            BuydownMonthlyPrincipalAndInterest(
                in.loanAmount, in.baseRatePercent, Num(TERM_YEARS))
        y1Rate == MathMax(Zero, Sub(in.baseRatePercent, Num(2)))
        y2Rate == MathMax(Zero, Sub(in.baseRatePercent, Num(1)))
        y3Rate == MathMax(Zero, in.baseRatePercent)
        y1Pay == BuydownMonthlyPrincipalAndInterest(in.loanAmount, y1Rate, Num(TERM_YEARS))
        y2Pay == BuydownMonthlyPrincipalAndInterest(in.loanAmount, y2Rate, Num(TERM_YEARS))
        y3Pay == BuydownMonthlyPrincipalAndInterest(in.loanAmount, y3Rate, Num(TERM_YEARS))
    IN  [baseMonthlyPayment |-> basePayment,
         schedule |->
             IF in.buydownType = "temporary-2-1"
             THEN <<[periodLabel |-> "Year 1",
                     ratePercent |-> y1Rate,
                     monthlyPayment |-> y1Pay,
                     annualPayment |-> Mul(y1Pay, Num(12)),
                     savingsMonthly |-> Sub(basePayment, y1Pay),
                     savingsAnnual |-> Mul(Sub(basePayment, y1Pay), Num(12))],
                    [periodLabel |-> "Year 2",
                     ratePercent |-> y2Rate,
                     monthlyPayment |-> y2Pay,
                     annualPayment |-> Mul(y2Pay, Num(12)),
                     savingsMonthly |-> Sub(basePayment, y2Pay),
                     savingsAnnual |-> Mul(Sub(basePayment, y2Pay), Num(12))],
                    [periodLabel |-> "Year 3-30",
                    ratePercent |-> y3Rate,
                    monthlyPayment |-> y3Pay,
                    annualPayment |-> Mul(y3Pay, Num(12)),
                    savingsMonthly |-> Zero,
                    savingsAnnual |-> Zero]>>
             ELSE <<[periodLabel |-> "Year 1-30",
                     ratePercent |-> MathMax(Zero, in.baseRatePercent),
                     monthlyPayment |-> basePayment,
                     annualPayment |-> Mul(basePayment, Num(12))]>>]

\* The memo with the temporary schedule in both modes.
BuydownMemoAlwaysTemporary(in) ==
    LET basePayment ==
            BuydownMonthlyPrincipalAndInterest(
                in.loanAmount, in.baseRatePercent, Num(TERM_YEARS))
        y1Rate == MathMax(Zero, Sub(in.baseRatePercent, Num(2)))
        y2Rate == MathMax(Zero, Sub(in.baseRatePercent, Num(1)))
        y3Rate == MathMax(Zero, in.baseRatePercent)
        y1Pay == BuydownMonthlyPrincipalAndInterest(in.loanAmount, y1Rate, Num(TERM_YEARS))
        y2Pay == BuydownMonthlyPrincipalAndInterest(in.loanAmount, y2Rate, Num(TERM_YEARS))
        y3Pay == BuydownMonthlyPrincipalAndInterest(in.loanAmount, y3Rate, Num(TERM_YEARS))
    IN  [baseMonthlyPayment |-> basePayment,
         schedule |->
             IF TRUE
             THEN <<[periodLabel |-> "Year 1",
                     ratePercent |-> y1Rate,
                     monthlyPayment |-> y1Pay,
                     annualPayment |-> Mul(y1Pay, Num(12)),
                     savingsMonthly |-> Sub(basePayment, y1Pay),
                     savingsAnnual |-> Mul(Sub(basePayment, y1Pay), Num(12))],
                    [periodLabel |-> "Year 2",
                     ratePercent |-> y2Rate,
                     monthlyPayment |-> y2Pay,
                     annualPayment |-> Mul(y2Pay, Num(12)),
                     savingsMonthly |-> Sub(basePayment, y2Pay),
                     savingsAnnual |-> Mul(Sub(basePayment, y2Pay), Num(12))],
                    [periodLabel |-> "Year 3-30",
                    ratePercent |-> y3Rate,
                    monthlyPayment |-> y3Pay,
                    annualPayment |-> Mul(y3Pay, Num(12))]>>
             ELSE <<[periodLabel |-> "Year 1-30",
                     ratePercent |-> MathMax(Zero, in.baseRatePercent),
                     monthlyPayment |-> basePayment,
                     annualPayment |-> Mul(basePayment, Num(12))]>>]

\* The useMemo of RateBuydownCalculator: a row is a record, and a field
\* the code leaves out of the object literal is absent from the record.
\* The labels are written with a hyphen for the en dash of the source.
BuydownMemo(in) ==
    LET basePayment ==
            BuydownMonthlyPrincipalAndInterest(
                in.loanAmount, in.baseRatePercent, Num(TERM_YEARS))
        y1Rate == MathMax(Zero, Sub(in.baseRatePercent, Num(2)))
        y2Rate == MathMax(Zero, Sub(in.baseRatePercent, Num(1)))
        y3Rate == MathMax(Zero, in.baseRatePercent)
        y1Pay == BuydownMonthlyPrincipalAndInterest(in.loanAmount, y1Rate, Num(TERM_YEARS))
        y2Pay == BuydownMonthlyPrincipalAndInterest(in.loanAmount, y2Rate, Num(TERM_YEARS))
        y3Pay == BuydownMonthlyPrincipalAndInterest(in.loanAmount, y3Rate, Num(TERM_YEARS))
    IN  [baseMonthlyPayment |-> basePayment,
         schedule |->
             IF in.buydownType = "temporary-2-1"
             THEN <<[periodLabel |-> "Year 1",
                     ratePercent |-> y1Rate,
                     monthlyPayment |-> y1Pay,
                     annualPayment |-> Mul(y1Pay, Num(12)),
                     savingsMonthly |-> Sub(basePayment, y1Pay),
                     savingsAnnual |-> Mul(Sub(basePayment, y1Pay), Num(12))],
                    [periodLabel |-> "Year 2",
                     ratePercent |-> y2Rate,
                     monthlyPayment |-> y2Pay,
                     annualPayment |-> Mul(y2Pay, Num(12)),
                     savingsMonthly |-> Sub(basePayment, y2Pay),
                     savingsAnnual |-> Mul(Sub(basePayment, y2Pay), Num(12))],
                    [periodLabel |-> "Year 3-30",
                    ratePercent |-> y3Rate,
                    monthlyPayment |-> y3Pay,
                    annualPayment |-> Mul(y3Pay, Num(12))]>>
             ELSE <<[periodLabel |-> "Year 1-30",
                     ratePercent |-> MathMax(Zero, in.baseRatePercent),
                     monthlyPayment |-> basePayment,
                     annualPayment |-> Mul(basePayment, Num(12))]>>]

\* hasSavings of a table row: row.savingsMonthly !== undefined
hasSavings(row) == "savingsMonthly" \in DOMAIN row

\* `${row.ratePercent.toFixed(2)}%`: the rate to two decimals, in hundredths.
RateText(ratePercent) == Shown("%", MathRound(Mul(ratePercent, Num(100))).n)

\* What the buydown screen shows: the base payment and the table's rows.
BuydownShown ==
    [baseMonthlyPayment |-> formatCurrency(results.baseMonthlyPayment),
     rows |->
         [i \in 1..Len(results.schedule) |->
             LET row == results.schedule[i]
             IN  [period |-> row.periodLabel,
                  rate |-> RateText(row.ratePercent),
                  monthly |-> formatCurrency(row.monthlyPayment),
                  savings |->
                      IF hasSavings(row)
                      THEN formatCurrency(row.savingsMonthly)
                      ELSE Unavailable]],
     savingsNote |-> inputs.buydownType = "temporary-2-1"]

(***************************************************************************)
(* RentVsBuyCalculator                                                     *)
(***************************************************************************)
ASSUMED_DOWN_PCT == Rat(2, 10)

ASSUMED_RATE_PCT == Rat(13, 2)

ASSUMED_TERM_YEARS == 30

ASSUMED_TAX_PCT == Rat(1, 100)

ASSUMED_MAINT_PCT == Rat(1, 100)

\* null, the value of firstCrossover before a crossing.
Null == [k |-> "null", n |-> 0, d |-> 1]

\* type DataPoint
DataPoints == [year : Numbers, rentCost : Numbers, buyNetCost : Numbers]

\* The locals of the useMemo callback: the constants computed before the
\* loop, the accumulators, the loop variable `year`, and `pc`, "loop" until
\* the callback has returned.  monthlySteps counts the turns of the inner
\* loop the run has taken so far.
Locals ==
    [years : Numbers, price0 : Numbers, rent0 : Numbers, rentInfl : Numbers,
     appr : Numbers, downPayment : Numbers, loanAmount : Numbers,
     monthlyMortgagePayment : Numbers, r : Numbers,
     remainingBalance : Numbers, cumulativePrincipalPaid : Numbers,
     cumulativeRentCost : Numbers, cumulativeMortgagePaid : Numbers,
     cumulativeTaxPaid : Numbers, cumulativeMaintenancePaid : Numbers,
     points : Seq(DataPoints), firstCrossover : Numbers \cup {Null},
     year : Numbers, monthlySteps : Nat, pc : {"loop", "returned"}]

\* The years left uncapped.
SimulatedYearsUncapped(durationYears) == MathMax(One, MathRound(durationYears))

\* years = Math.min(50, Math.max(1, Math.round(durationYears)))
SimulatedYears(durationYears) ==
    MathMin(Num(50), MathMax(One, MathRound(durationYears)))

\* The callback up to the loop: the locals as they are initialised.
FreshLocals(in) ==
    LET price0 == clampNonNegative(in.targetHomePrice)
        downPayment == FlMul(price0, ASSUMED_DOWN_PCT)
        loanAmount == MathMax(Zero, FlSub(price0, downPayment))
    IN  [years |-> SimulatedYears(in.durationYears),
         price0 |-> price0,
         rent0 |-> clampNonNegative(in.currentMonthlyRent),
         rentInfl |-> FlDiv(clampNonNegative(in.rentInflationPct), Num(100)),
         appr |-> FlDiv(clampNonNegative(in.homeAppreciationPct), Num(100)),
         downPayment |-> downPayment,
         loanAmount |-> loanAmount,
         monthlyMortgagePayment |->
             calculateMonthlyPayment(
                 loanAmount, ASSUMED_RATE_PCT, Num(ASSUMED_TERM_YEARS)),
         r |-> FlDiv(FlDiv(ASSUMED_RATE_PCT, Num(100)), Num(12)),
         remainingBalance |-> loanAmount,
         cumulativePrincipalPaid |-> Zero,
         cumulativeRentCost |-> Zero,
         cumulativeMortgagePaid |-> Zero,
         cumulativeTaxPaid |-> Zero,
         cumulativeMaintenancePaid |-> Zero,
         points |-> <<>>,
         firstCrossover |-> Null,
         year |-> One,
         monthlySteps |-> 0,
         pc |-> "loop"]

\* The locals the inner loop reads and writes, and its month counter m.
AmortizeLocals ==
    [remainingBalance : Numbers, cumulativePrincipalPaid : Numbers,
     monthlyMortgagePayment : Numbers, r : Numbers, m : Nat]

\* An inner loop that never leaves early.
NeverPaidOff(remainingBalance) == FALSE

\* if (remainingBalance <= 0) break
PaidOff(remainingBalance) == Le(remainingBalance, Zero)

\* The inner loop from month a.m on: up to 12 months of interest and
\* principal on the remaining balance, stopping when nothing remains; the
\* m of the result is the number of months the year has stepped through.
AmortizeOf[a \in AmortizeLocals] ==
    IF ~(a.m < 12) \/ PaidOff(a.remainingBalance)
    THEN a
    ELSE LET interestPayment == FlMul(a.remainingBalance, a.r)
             principalPayment ==
                 MathMax(Zero, FlSub(a.monthlyMortgagePayment, interestPayment))
         IN  AmortizeOf[
                 [a EXCEPT
                     !.remainingBalance =
                         MathMax(Zero, FlSub(a.remainingBalance, principalPayment)),
                     !.cumulativePrincipalPaid =
                         FlAdd(a.cumulativePrincipalPaid, principalPayment),
                     !.m = a.m + 1]]

\* The year's months applied to the loan amount instead of the balance left
\* by the year before.
AmortizeYearFromLoanAmount(s) ==
    AmortizeOf[[remainingBalance |-> s.loanAmount,
                cumulativePrincipalPaid |-> s.cumulativePrincipalPaid,
                monthlyMortgagePayment |-> s.monthlyMortgagePayment,
                r |-> s.r,
                m |-> 0]]

\* The inner loop of one year, on the balance and the principal paid so far.
AmortizeYear(s) ==
    AmortizeOf[[remainingBalance |-> s.remainingBalance,
                cumulativePrincipalPaid |-> s.cumulativePrincipalPaid,
                monthlyMortgagePayment |-> s.monthlyMortgagePayment,
                r |-> s.r,
                m |-> 0]]

\* The crossover taken from every year that crosses.
LatestCrossover(firstCrossover, year, netBuyCost, cumulativeRentCost) ==
    IF Le(netBuyCost, cumulativeRentCost) THEN year ELSE firstCrossover

\* if (firstCrossover === null && netBuyCost <= cumulativeRentCost)
\*     firstCrossover = year
NextCrossover(firstCrossover, year, netBuyCost, cumulativeRentCost) ==
    IF firstCrossover = Null /\ Le(netBuyCost, cumulativeRentCost)
    THEN year
    ELSE firstCrossover

\* The net cost of the cash outlay alone, with no equity taken off.
NetBuyCostWithoutEquity(cashOut, equity) == MathMax(Zero, cashOut)

\* const netBuyCost = Math.max(0, cashOut - equity)
NetBuyCost(cashOut, equity) == MathMax(Zero, FlSub(cashOut, equity))

\* The body of the year loop and its year++.
YearBodyOf[s \in Locals] ==
    LET yearHomeValue ==
            FlMul(s.price0, FlPow(FlAdd(One, s.appr), FlSub(s.year, One)))
        yearMonthlyRent ==
            FlMul(s.rent0, FlPow(FlAdd(One, s.rentInfl), FlSub(s.year, One)))
        yearRentCost == FlMul(yearMonthlyRent, Num(12))
        cumulativeRentCost == FlAdd(s.cumulativeRentCost, yearRentCost)
        amortized == AmortizeYear(s)
        yearMortgagePaid == FlMul(s.monthlyMortgagePayment, Num(12))
        cumulativeMortgagePaid == FlAdd(s.cumulativeMortgagePaid, yearMortgagePaid)
        yearTax == FlMul(yearHomeValue, ASSUMED_TAX_PCT)
        yearMaint == FlMul(yearHomeValue, ASSUMED_MAINT_PCT)
        cumulativeTaxPaid == FlAdd(s.cumulativeTaxPaid, yearTax)
        cumulativeMaintenancePaid == FlAdd(s.cumulativeMaintenancePaid, yearMaint)
        appreciationGain == MathMax(Zero, FlSub(yearHomeValue, s.price0))
        equity ==
            FlAdd(FlAdd(s.downPayment, amortized.cumulativePrincipalPaid),
                  appreciationGain)
        cashOut ==
            FlAdd(FlAdd(FlAdd(s.downPayment, cumulativeMortgagePaid),
                        cumulativeTaxPaid),
                  cumulativeMaintenancePaid)
        netBuyCost == NetBuyCost(cashOut, equity)
    IN  [s EXCEPT
            !.remainingBalance = amortized.remainingBalance,
            !.cumulativePrincipalPaid = amortized.cumulativePrincipalPaid,
            !.cumulativeRentCost = cumulativeRentCost,
            !.cumulativeMortgagePaid = cumulativeMortgagePaid,
            !.cumulativeTaxPaid = cumulativeTaxPaid,
            !.cumulativeMaintenancePaid = cumulativeMaintenancePaid,
            !.firstCrossover =
                NextCrossover(s.firstCrossover, s.year, netBuyCost, cumulativeRentCost),
            !.points =
                Append(s.points,
                       [year |-> s.year,
                        rentCost |-> cumulativeRentCost,
                        buyNetCost |-> netBuyCost]),
            !.monthlySteps = s.monthlySteps + amortized.m,
            !.year = Add(s.year, One)]

\* for (let year = 1; year <= years; year++): the loop from its position s
\* to its end.
LoopOf[s \in Locals] == IF Le(s.year, s.years) THEN LoopOf[YearBodyOf[s]] ELSE s

\* What the callback returns from the locals the loop has left.
RentVsBuyReturn(s) ==
    LET last == s.points[Len(s.points)]
    IN  [data |-> s.points,
         crossoverYear |-> s.firstCrossover,
         summary |->
             [finalRentCost |-> IF Len(s.points) = 0 THEN Zero ELSE last.rentCost,
              finalBuyNetCost |-> IF Len(s.points) = 0 THEN Zero ELSE last.buyNetCost,
              downPayment |-> s.downPayment,
              loanAmount |-> s.loanAmount,
              monthlyMortgagePayment |-> s.monthlyMortgagePayment]]

\* A run of the callback that starts from the totals the run before left.
RentVsBuyStartCarryingTotals(in, previous) ==
    [FreshLocals(in) EXCEPT
        !.remainingBalance = previous.remainingBalance,
        !.cumulativePrincipalPaid = previous.cumulativePrincipalPaid,
        !.cumulativeRentCost = previous.cumulativeRentCost,
        !.cumulativeMortgagePaid = previous.cumulativeMortgagePaid,
        !.cumulativeTaxPaid = previous.cumulativeTaxPaid,
        !.cumulativeMaintenancePaid = previous.cumulativeMaintenancePaid]

\* A run of the callback after the run that left `previous`: every local is
\* declared inside the callback, so none of `previous` is read.
RentVsBuyStart(in, previous) == FreshLocals(in)

\* What the rent-vs-buy screen shows once the callback has returned.
RentVsBuyShown ==
    LET out == RentVsBuyReturn(results)
    IN  [crossover |->
             IF out.crossoverYear # Null /\ ~StrictEq(out.crossoverYear, Zero)
             THEN Shown("Crossover: Year", out.crossoverYear.n)
             ELSE Shown("No crossover in range", 0),
         finalRentCost |-> formatCurrency(out.summary.finalRentCost),
         finalBuyNetCost |-> formatCurrency(out.summary.finalBuyNetCost)]

(***************************************************************************)
(* Bounds of the model                                                     *)
(***************************************************************************)
\* Money amounts are 100 * k for k up to MaxMoney.
MaxMoney == 3

\* Annual rates are 300 * k percent for k up to MaxRateStep, so that the
\* monthly rate is k/4 and the powers of 1 + r stay small.
MaxRateStep == 2

\* Terms are k/12 years for k up to MaxMonths, and two that need rounding.
MaxMonths == 3

\* Ages are the whole numbers up to MaxAge, and two fractional ones.
MaxAge == 150

Specials == {NaN, PosInf, NegInf}

MoneyValues == {Num(100 * k) : k \in 0..MaxMoney}

RateValues == {Num(300 * k) : k \in 0..MaxRateStep}

\* 1/30 year is 0.4 month and rounds to no period; 1/8 year is 1.5 months
\* and rounds to two.
TermValues == {Rat(k, 12) : k \in 0..MaxMonths} \cup {Rat(1, 30), Rat(1, 8)}

AgeValues == {Num(a) : a \in 0..MaxAge} \cup {Rat(139, 2), Rat(159, 2)}

(***************************************************************************)
(* The function harness: a call of one of the pure functions on arguments  *)
(* drawn from the bounded sets, including negative and non-finite ones.    *)
(***************************************************************************)
NoRet == [k |-> "none", n |-> 0, d |-> 1]

NoCall == [fn |-> "none", args |-> <<>>]

Unmounted == "unmounted"

\* The window before any clipboard write or setTimeout.  A string built
\* from a template is the sequence of its pieces; <<>> is the empty string.
NoBrowser == [clipboard |-> <<>>, writes |-> <<>>, timers |-> 0]

PrincipalArgs == Specials \cup {Num(-100)} \cup MoneyValues

RateArgs == Specials \cup {Num(-300)} \cup RateValues

TermArgs == Specials \cup {Rat(-1, 12)} \cup TermValues

AgeArgs == Specials \cup {Num(-1)} \cup AgeValues

PaymentFns == {"calculateMonthlyPrincipalAndInterest", "calculateMonthlyPayment"}

InitFn ==
    /\ activeTab = Unmounted
    /\ inputs = <<>>
    /\ results = <<>>
    /\ ret = NoRet
    /\ browser = NoBrowser
    /\ \/ \E f \in PaymentFns, p \in PrincipalArgs, r \in RateArgs, t \in TermArgs :
             call = [fn |-> f, args |-> <<p, r, t>>]
       \/ \E a \in AgeArgs :
             call = [fn |-> "estimatedAvailabilityPct", args |-> <<a>>]

CallMonthlyPrincipalAndInterest ==
    /\ call.fn = "calculateMonthlyPrincipalAndInterest"
    /\ ret = NoRet
    /\ ret' = calculateMonthlyPrincipalAndInterest(call.args[1], call.args[2], call.args[3])
    /\ UNCHANGED <<activeTab, inputs, results, call, browser>>

CallMonthlyPayment ==
    /\ call.fn = "calculateMonthlyPayment"
    /\ ret = NoRet
    /\ ret' = calculateMonthlyPayment(call.args[1], call.args[2], call.args[3])
    /\ UNCHANGED <<activeTab, inputs, results, call, browser>>

CallEstimatedAvailabilityPct ==
    /\ call.fn = "estimatedAvailabilityPct"
    /\ ret = NoRet
    /\ ret' = estimatedAvailabilityPct(call.args[1])
    /\ UNCHANGED <<activeTab, inputs, results, call, browser>>

NextFn ==
    \/ CallMonthlyPrincipalAndInterest
    \/ CallMonthlyPayment
    \/ CallEstimatedAvailabilityPct

SpecFn == InitFn /\ [][NextFn]_vars

(***************************************************************************)
(* A mounted calculator screen.  The initial states are the input states   *)
(* the screen reaches by typing into its fields, over the bounded value    *)
(* sets; every change of a field re-renders the screen.                    *)
(***************************************************************************)
\* Annual tax and insurance amounts: 0, one that is not a whole number of
\* dollars a month, and a whole one.
EscrowValues == {Zero, Num(50), Num(1200)}

\* The ages at the edges of the bands, inside the gaps between them and
\* beyond the clamp.
ScreenAgeValues ==
    {Num(a) : a \in {0, 61, 62, 69, 70, 79, 80, 95, 120, MaxAge}}
        \cup {Rat(123, 2), Rat(139, 2), Rat(159, 2)}

\* What Number(e.target.value) can be for a field holding `values`.
RawNumbers(values) == Specials \cup {Num(-1)} \cup values

\* What Number(cleaned) can be for a currency field holding `values`.
RawCurrency(values) == {NaN} \cup values

PurchaseInputs ==
    [homePrice : MoneyValues,
     downPayment : MoneyValues,
     interestRatePercent : RateValues,
     loanTermYears : TermValues,
     annualPropertyTax : EscrowValues,
     annualHomeInsurance : EscrowValues]

RefinanceInputs ==
    [originalLoanBalance : MoneyValues,
     currentRate : RateValues,
     newRate : RateValues,
     newTermYears : TermValues,
     closingCosts : MoneyValues]

ReverseInputs ==
    [youngestBorrowerAge : ScreenAgeValues,
     homeValue : MoneyValues,
     currentMortgageBalance : MoneyValues]

\* The useMemo of the screen `tab` on the input values `in`.
Render(tab, in) ==
    CASE tab = "purchase" -> PurchaseMemo(in)
      [] tab = "refinance" -> RefinanceMemo(in)
      [] tab = "reverse-mortgage" -> ReverseMemo(in)

Init ==
    /\ call = NoCall
    /\ ret = NoRet
    /\ browser = NoBrowser
    /\ \/ activeTab = "purchase" /\ inputs \in PurchaseInputs
       \/ activeTab = "refinance" /\ inputs \in RefinanceInputs
       \/ activeTab = "reverse-mortgage" /\ inputs \in ReverseInputs
    /\ results = Render(activeTab, inputs)

\* Each action is a field's onChange: the setter with the clamped value, and
\* the render that follows it, in which useMemo recomputes the results.
SetHomePrice ==
    /\ activeTab = "purchase"
    /\ \E num \in RawCurrency(MoneyValues) :
           inputs' = [inputs EXCEPT !.homePrice = CurrencyFieldValue(num)]
    /\ results' = PurchaseMemo(inputs')
    /\ UNCHANGED <<activeTab, call, ret, browser>>

SetDownPayment ==
    /\ activeTab = "purchase"
    /\ \E num \in RawCurrency(MoneyValues) :
           inputs' = [inputs EXCEPT !.downPayment = CurrencyFieldValue(num)]
    /\ results' = PurchaseMemo(inputs')
    /\ UNCHANGED <<activeTab, call, ret, browser>>

SetInterestRatePercent ==
    /\ activeTab = "purchase"
    /\ \E num \in RawNumbers(RateValues) :
           inputs' = [inputs EXCEPT !.interestRatePercent = NumberFieldValue(num)]
    /\ results' = PurchaseMemo(inputs')
    /\ UNCHANGED <<activeTab, call, ret, browser>>

SetLoanTermYears ==
    /\ activeTab = "purchase"
    /\ \E num \in RawNumbers(TermValues) :
           inputs' = [inputs EXCEPT !.loanTermYears = NumberFieldValue(num)]
    /\ results' = PurchaseMemo(inputs')
    /\ UNCHANGED <<activeTab, call, ret, browser>>

SetAnnualPropertyTax ==
    /\ activeTab = "purchase"
    /\ \E num \in RawCurrency(EscrowValues) :
           inputs' = [inputs EXCEPT !.annualPropertyTax = CurrencyFieldValue(num)]
    /\ results' = PurchaseMemo(inputs')
    /\ UNCHANGED <<activeTab, call, ret, browser>>

SetAnnualHomeInsurance ==
    /\ activeTab = "purchase"
    /\ \E num \in RawCurrency(EscrowValues) :
           inputs' = [inputs EXCEPT !.annualHomeInsurance = CurrencyFieldValue(num)]
    /\ results' = PurchaseMemo(inputs')
    /\ UNCHANGED <<activeTab, call, ret, browser>>

SetOriginalLoanBalance ==
    /\ activeTab = "refinance"
    /\ \E num \in RawNumbers(MoneyValues) :
           inputs' = [inputs EXCEPT !.originalLoanBalance = NumberFieldValue(num)]
    /\ results' = RefinanceMemo(inputs')
    /\ UNCHANGED <<activeTab, call, ret, browser>>

SetCurrentRate ==
    /\ activeTab = "refinance"
    /\ \E num \in RawNumbers(RateValues) :
           inputs' = [inputs EXCEPT !.currentRate = NumberFieldValue(num)]
    /\ results' = RefinanceMemo(inputs')
    /\ UNCHANGED <<activeTab, call, ret, browser>>

SetNewRate ==
    /\ activeTab = "refinance"
    /\ \E num \in RawNumbers(RateValues) :
           inputs' = [inputs EXCEPT !.newRate = NumberFieldValue(num)]
    /\ results' = RefinanceMemo(inputs')
    /\ UNCHANGED <<activeTab, call, ret, browser>>

SetNewTermYears ==
    /\ activeTab = "refinance"
    /\ \E num \in RawNumbers(TermValues) :
           inputs' = [inputs EXCEPT !.newTermYears = NumberFieldValue(num)]
    /\ results' = RefinanceMemo(inputs')
    /\ UNCHANGED <<activeTab, call, ret, browser>>

SetClosingCosts ==
    /\ activeTab = "refinance"
    /\ \E num \in RawNumbers(MoneyValues) :
           inputs' = [inputs EXCEPT !.closingCosts = NumberFieldValue(num)]
    /\ results' = RefinanceMemo(inputs')
    /\ UNCHANGED <<activeTab, call, ret, browser>>

SetYoungestBorrowerAge ==
    /\ activeTab = "reverse-mortgage"
    /\ \E num \in RawNumbers(ScreenAgeValues) :
           inputs' = [inputs EXCEPT !.youngestBorrowerAge = NumberFieldValue(num)]
    /\ results' = ReverseMemo(inputs')
    /\ UNCHANGED <<activeTab, call, ret, browser>>

SetHomeValue ==
    /\ activeTab = "reverse-mortgage"
    /\ \E num \in RawNumbers(MoneyValues) :
           inputs' = [inputs EXCEPT !.homeValue = NumberFieldValue(num)]
    /\ results' = ReverseMemo(inputs')
    /\ UNCHANGED <<activeTab, call, ret, browser>>

SetCurrentMortgageBalance ==
    /\ activeTab = "reverse-mortgage"
    /\ \E num \in RawNumbers(MoneyValues) :
           inputs' = [inputs EXCEPT !.currentMortgageBalance = NumberFieldValue(num)]
    /\ results' = ReverseMemo(inputs')
    /\ UNCHANGED <<activeTab, call, ret, browser>>

Next ==
    \/ SetHomePrice
    \/ SetDownPayment
    \/ SetInterestRatePercent
    \/ SetLoanTermYears
    \/ SetAnnualPropertyTax
    \/ SetAnnualHomeInsurance
    \/ SetOriginalLoanBalance
    \/ SetCurrentRate
    \/ SetNewRate
    \/ SetNewTermYears
    \/ SetClosingCosts
    \/ SetYoungestBorrowerAge
    \/ SetHomeValue
    \/ SetCurrentMortgageBalance

Spec == Init /\ [][Next]_vars

(***************************************************************************)
(* A mounted screen of the calculators that assume a 30-year term: cash    *)
(* out, rate buydown and rent vs buy.  The rent-vs-buy callback is run a   *)
(* year of its loop at a time; its fields change once it has returned.     *)
(***************************************************************************)
\* Monthly rents are the whole amounts up to MaxRent.
MaxRent == 2

\* Durations go up to MaxDuration years, beyond the cap of 50.
MaxDuration == 51

\* Annual rates of 3 * k percent, for which 1 + r to the 360th power stays
\* small.
ThirtyYearRateValues == {Num(3 * k) : k \in 0..MaxRateStep}

\* A desired cash-out of 60 is what 80% of 200 leaves above a balance of 100.
CashOutValues == MoneyValues \cup {Num(60)}

\* Base rates under, at and above the 2 points of the buydown.
BaseRateValues == ThirtyYearRateValues \cup {One, Rat(3, 2), Num(2)}

RentValues == {Num(k) : k \in 0..MaxRent}

GrowthValues == {Zero, Num(3)}

\* Appreciation of 6% a year outruns the assumed costs of owning within the
\* 50 years.
AppreciationValues == GrowthValues \cup {Num(6)}

\* Durations that round to 0, 1 and 3 years, and those at and over the cap.
DurationValues == {Zero, Rat(2, 5), One, Rat(5, 2), Num(50), Num(MaxDuration)}

BuydownTypes == {"none", "temporary-2-1"}

CashOutInputs ==
    [currentHomeValue : MoneyValues,
     existingMortgageBalance : MoneyValues,
     desiredCashOutAmount : CashOutValues,
     newInterestRate : ThirtyYearRateValues]

BuydownInputs ==
    [buydownType : BuydownTypes,
     loanAmount : MoneyValues,
     baseRatePercent : BaseRateValues]

RentVsBuyInputs ==
    [targetHomePrice : MoneyValues,
     currentMonthlyRent : RentValues,
     rentInflationPct : GrowthValues,
     homeAppreciationPct : AppreciationValues,
     durationYears : DurationValues]

InitThirtyYear ==
    /\ call = NoCall
    /\ ret = NoRet
    /\ browser = NoBrowser
    /\ \/ /\ activeTab = "cash-out"
          /\ inputs \in CashOutInputs
          /\ results = CashOutMemo(inputs)
       \/ /\ activeTab = "rate-buydown"
          /\ inputs \in BuydownInputs
          /\ results = BuydownMemo(inputs)
       \/ /\ activeTab = "rent-vs-buy"
          /\ inputs \in RentVsBuyInputs
          /\ results = FreshLocals(inputs)

SetCurrentHomeValue ==
    /\ activeTab = "cash-out"
    /\ \E num \in RawNumbers(MoneyValues) :
           inputs' = [inputs EXCEPT !.currentHomeValue = NumberFieldValue(num)]
    /\ results' = CashOutMemo(inputs')
    /\ UNCHANGED <<activeTab, call, ret, browser>>

SetExistingMortgageBalance ==
    /\ activeTab = "cash-out"
    /\ \E num \in RawNumbers(MoneyValues) :
           inputs' = [inputs EXCEPT !.existingMortgageBalance = NumberFieldValue(num)]
    /\ results' = CashOutMemo(inputs')
    /\ UNCHANGED <<activeTab, call, ret, browser>>

SetDesiredCashOutAmount ==
    /\ activeTab = "cash-out"
    /\ \E num \in RawNumbers(CashOutValues) :
           inputs' = [inputs EXCEPT !.desiredCashOutAmount = NumberFieldValue(num)]
    /\ results' = CashOutMemo(inputs')
    /\ UNCHANGED <<activeTab, call, ret, browser>>

SetNewInterestRate ==
    /\ activeTab = "cash-out"
    /\ \E num \in RawNumbers(ThirtyYearRateValues) :
           inputs' = [inputs EXCEPT !.newInterestRate = NumberFieldValue(num)]
    /\ results' = CashOutMemo(inputs')
    /\ UNCHANGED <<activeTab, call, ret, browser>>

\* The select's onChange: setBuydownType(e.target.value as BuydownType)
SetBuydownType ==
    /\ activeTab = "rate-buydown"
    /\ \E type \in BuydownTypes :
           inputs' = [inputs EXCEPT !.buydownType = type]
    /\ results' = BuydownMemo(inputs')
    /\ UNCHANGED <<activeTab, call, ret, browser>>

SetLoanAmount ==
    /\ activeTab = "rate-buydown"
    /\ \E num \in RawNumbers(MoneyValues) :
           inputs' = [inputs EXCEPT !.loanAmount = NumberFieldValue(num)]
    /\ results' = BuydownMemo(inputs')
    /\ UNCHANGED <<activeTab, call, ret, browser>>

SetBaseRatePercent ==
    /\ activeTab = "rate-buydown"
    /\ \E num \in RawNumbers(BaseRateValues) :
           inputs' = [inputs EXCEPT !.baseRatePercent = NumberFieldValue(num)]
    /\ results' = BuydownMemo(inputs')
    /\ UNCHANGED <<activeTab, call, ret, browser>>

SetTargetHomePrice ==
    /\ activeTab = "rent-vs-buy"
    /\ results.pc = "returned"
    /\ \E num \in RawNumbers(MoneyValues) :
           inputs' = [inputs EXCEPT !.targetHomePrice = NumberFieldValue(num)]
    /\ results' = RentVsBuyStart(inputs', results)
    /\ UNCHANGED <<activeTab, call, ret, browser>>

SetCurrentMonthlyRent ==
    /\ activeTab = "rent-vs-buy"
    /\ results.pc = "returned"
    /\ \E num \in RawNumbers(RentValues) :
           inputs' = [inputs EXCEPT !.currentMonthlyRent = NumberFieldValue(num)]
    /\ results' = RentVsBuyStart(inputs', results)
    /\ UNCHANGED <<activeTab, call, ret, browser>>

SetRentInflationPct ==
    /\ activeTab = "rent-vs-buy"
    /\ results.pc = "returned"
    /\ \E num \in RawNumbers(GrowthValues) :
           inputs' = [inputs EXCEPT !.rentInflationPct = NumberFieldValue(num)]
    /\ results' = RentVsBuyStart(inputs', results)
    /\ UNCHANGED <<activeTab, call, ret, browser>>

SetHomeAppreciationPct ==
    /\ activeTab = "rent-vs-buy"
    /\ results.pc = "returned"
    /\ \E num \in RawNumbers(AppreciationValues) :
           inputs' = [inputs EXCEPT !.homeAppreciationPct = NumberFieldValue(num)]
    /\ results' = RentVsBuyStart(inputs', results)
    /\ UNCHANGED <<activeTab, call, ret, browser>>

SetDurationYears ==
    /\ activeTab = "rent-vs-buy"
    /\ results.pc = "returned"
    /\ \E num \in RawNumbers(DurationValues) :
           inputs' = [inputs EXCEPT !.durationYears = NumberFieldValue(num)]
    /\ results' = RentVsBuyStart(inputs', results)
    /\ UNCHANGED <<activeTab, call, ret, browser>>

\* One turn of the year loop.
SimulateYear ==
    /\ activeTab = "rent-vs-buy"
    /\ results.pc = "loop"
    /\ Le(results.year, results.years)
    /\ results' = YearBodyOf[results]
    /\ UNCHANGED <<activeTab, inputs, call, ret, browser>>

\* The loop is over: the callback returns data, crossoverYear and summary.
ReturnRentVsBuy ==
    /\ activeTab = "rent-vs-buy"
    /\ results.pc = "loop"
    /\ ~Le(results.year, results.years)
    /\ results' = [results EXCEPT !.pc = "returned"]
    /\ UNCHANGED <<activeTab, inputs, call, ret, browser>>

NextThirtyYear ==
    \/ SetCurrentHomeValue
    \/ SetExistingMortgageBalance
    \/ SetDesiredCashOutAmount
    \/ SetNewInterestRate
    \/ SetBuydownType
    \/ SetLoanAmount
    \/ SetBaseRatePercent
    \/ SetTargetHomePrice
    \/ SetCurrentMonthlyRent
    \/ SetRentInflationPct
    \/ SetHomeAppreciationPct
    \/ SetDurationYears
    \/ SimulateYear
    \/ ReturnRentVsBuy

SpecThirtyYear == InitThirtyYear /\ [][NextThirtyYear]_vars

(***************************************************************************)
(* The runs of the rent-vs-buy callback for every kind of duration, on a   *)
(* home of the highest price and on one of price 0.  The callback is       *)
(* synchronous: once it runs, its loop turns and its return are taken      *)
(* without waiting for anything else.                                      *)
(***************************************************************************)
RunInputs ==
    [targetHomePrice : {Zero, Num(100 * MaxMoney)},
     currentMonthlyRent : {Num(MaxRent)},
     rentInflationPct : {Num(3)},
     homeAppreciationPct : {Zero, Num(6)},
     durationYears : DurationValues]

InitRentVsBuyRun ==
    /\ call = NoCall
    /\ ret = NoRet
    /\ browser = NoBrowser
    /\ activeTab = "rent-vs-buy"
    /\ inputs \in RunInputs
    /\ results = FreshLocals(inputs)

NextRentVsBuyRun ==
    \/ SetDurationYears
    \/ SimulateYear
    \/ ReturnRentVsBuy

SpecRentVsBuyRun ==
    /\ InitRentVsBuyRun
    /\ [][NextRentVsBuyRun]_vars
    /\ WF_vars(SimulateYear)
    /\ WF_vars(ReturnRentVsBuy)

(***************************************************************************)
(* The places where payments at two rates are compared: a call of a        *)
(* payment function, the refinance screen and the rate-buydown screen.     *)
(***************************************************************************)
InitRates ==
    /\ ret = NoRet
    /\ browser = NoBrowser
    /\ \/ /\ activeTab = Unmounted
          /\ inputs = <<>>
          /\ results = <<>>
          /\ \E f \in PaymentFns, p \in PrincipalArgs, r \in RateArgs, t \in TermArgs :
                call = [fn |-> f, args |-> <<p, r, t>>]
       \/ /\ call = NoCall
          /\ activeTab = "refinance"
          /\ inputs \in RefinanceInputs
          /\ results = RefinanceMemo(inputs)
       \/ /\ call = NoCall
          /\ activeTab = "rate-buydown"
          /\ inputs \in BuydownInputs
          /\ results = BuydownMemo(inputs)

\* The initial states hold every combination of the inputs; the steps are
\* the calls and the changes of a rate.
NextRates ==
    \/ CallMonthlyPrincipalAndInterest
    \/ CallMonthlyPayment
    \/ SetNewRate
    \/ SetBaseRatePercent

SpecRates == InitRates /\ [][NextRates]_vars

(***************************************************************************)
(* Properties of the pure functions, checked under SpecFn                  *)
(***************************************************************************)
Returned(f) == call.fn = f /\ ret # NoRet

\* A negative or non-finite argument.
BadArg(x) == x.k # "fin" \/ x.n < 0

Sanitized(x) == IF BadArg(x) THEN Zero ELSE x

\* The whole number nearest to 12 * term, a half counting upwards, for a
\* finite term >= 0: the n with n - 1/2 <= 12 * term < n + 1/2.
Periods(term) ==
    CHOOSE n \in 0..(12 * term.n + 1) :
        (2 * n - 1) * term.d <= 24 * term.n /\ 24 * term.n < (2 * n + 1) * term.d

\* The balance left of `balance` after `k` months at monthly rate r when
\* `payment` is paid at the end of each month.
RECURSIVE BalanceAfter(_, _, _, _)
BalanceAfter(balance, r, payment, k) ==
    IF k = 0
    THEN balance
    ELSE BalanceAfter(Sub(Mul(balance, Add(One, r)), payment), r, payment, k - 1)

\* C1: the monthly payment is 0 whenever the clamped principal is 0 (the
\* principal is 0, negative or non-finite) or the number of periods
\* round(termYears * 12) is 0 (the term is negative, non-finite or under
\* half a month), whatever the rate; for both copies of the function.
C1_ZeroPrincipalOrNoPeriods ==
    \A f \in PaymentFns :
        Returned(f) =>
            LET principal == call.args[1]
                termYears == call.args[3]
            IN  (\/ BadArg(principal)
                 \/ principal.n = 0
                 \/ BadArg(termYears)
                 \/ 24 * termYears.n < termYears.d) => ret = Zero

\* A positive principal at a positive rate over 1/30 year, which rounds to
\* no period, returned 0.
C1_Witness ==
    /\ Returned("calculateMonthlyPrincipalAndInterest")
    /\ call.args = <<Num(300), Num(300), Rat(1, 30)>>
    /\ ret = Zero

\* C2 as stated: for every principal >= 0 and every term > 0 the payment at
\* a 0% rate is principal / round(term * 12).
C2_Original ==
    Returned("calculateMonthlyPrincipalAndInterest") =>
        LET principal == call.args[1]
            termYears == call.args[3]
        IN  (/\ ~BadArg(principal)
             /\ ~BadArg(termYears)
             /\ termYears.n > 0
             /\ call.args[2] = Zero)
            => ret = Div(principal, MathRound(Mul(termYears, Num(12))))

\* C2 (amended): for every principal >= 0 and every term whose number of
\* periods n = round(term * 12) is at least 1, the payment at a 0% rate is
\* principal / n, that is n payments make up the principal.
C2_StraightLine ==
    Returned("calculateMonthlyPrincipalAndInterest") =>
        LET principal == call.args[1]
            termYears == call.args[3]
        IN  (/\ ~BadArg(principal)
             /\ ~BadArg(termYears)
             /\ call.args[2] = Zero
             /\ Periods(termYears) >= 1)
            => Mul(ret, Num(Periods(termYears))) = principal

\* 300 at 0% over 1/8 year (1.5 months, two periods) returned 150.
C2_Witness ==
    /\ Returned("calculateMonthlyPrincipalAndInterest")
    /\ call.args = <<Num(300), Zero, Rat(1, 8)>>
    /\ ret = Num(150)

\* C3: for principal > 0, n = round(termYears * 12) >= 1 and monthly rate
\* r = annualRatePercent / 1200 > 0 the payment is the level-payment annuity
\* value: payment * ((1+r)^n - 1) = principal * r * (1+r)^n, and n such
\* payments bring the balance to exactly 0.
C3_AnnuityFormula ==
    Returned("calculateMonthlyPrincipalAndInterest") =>
        LET principal == call.args[1]
            rate == call.args[2]
            termYears == call.args[3]
        IN  (/\ ~BadArg(principal)
             /\ principal.n > 0
             /\ ~BadArg(rate)
             /\ rate.n > 0
             /\ ~BadArg(termYears)
             /\ Periods(termYears) >= 1)
            => LET n == Periods(termYears)
                   r == Rat(rate.n, rate.d * 1200)
                   growth == PowInt(Add(One, r), n)
               IN  /\ Mul(ret, Sub(growth, One)) = Mul(Mul(principal, r), growth)
                   /\ BalanceAfter(principal, r, ret, n) = Zero

\* 100 at 300% a year (r = 1/4) over three months returned 3125/61.
C3_Witness ==
    /\ Returned("calculateMonthlyPrincipalAndInterest")
    /\ call.args = <<Num(100), Num(300), Rat(3, 12)>>
    /\ ret = Rat(3125, 61)

\* C4: the payment function returns a value for every combination of
\* arguments, and that value is the one it returns with each negative or
\* non-finite argument replaced by 0: a bad principal or term gives 0, and
\* a bad rate gives the 0% payment principal / n.
C4_FailSoft ==
    Returned("calculateMonthlyPrincipalAndInterest") =>
        LET principal == call.args[1]
            rate == call.args[2]
            termYears == call.args[3]
        IN  /\ ret = calculateMonthlyPrincipalAndInterest(
                        Sanitized(principal), Sanitized(rate), Sanitized(termYears))
            /\ (BadArg(principal) \/ BadArg(termYears)) => ret = Zero
            /\ (/\ BadArg(rate)
                /\ ~BadArg(principal)
                /\ ~BadArg(termYears)
                /\ Periods(termYears) >= 1)
               => Mul(ret, Num(Periods(termYears))) = principal

\* 300 at a NaN rate over three months returned 100, the 0% payment.
C4_Witness ==
    /\ Returned("calculateMonthlyPrincipalAndInterest")
    /\ call.args = <<Num(300), NaN, Rat(3, 12)>>
    /\ ret = Num(100)

\* C8: at every whole-number age estimatedAvailabilityPct is the table's
\* value: 0 below 62; 0.35 at 62 rising by 0.05/7 a year to 0.40 at 69;
\* 0.45 at 70 (the jump from 0.40 is kept) rising by 0.05/9 a year to 0.50
\* at 79; 0.55 at 80 rising by 0.05/15 a year to 0.60 at 95; and 0.60 at
\* every age from 95 on, the ages above the clamp at 120 included.
C8_AvailabilityTable ==
    Returned("estimatedAvailabilityPct") =>
        LET age == call.args[1]
            a == age.n
        IN  (age.k = "fin" /\ age.d = 1) =>
                /\ a < 62 => ret = Zero
                /\ a = 62 => ret = Rat(35, 100)
                /\ a = 69 => ret = Rat(40, 100)
                /\ a = 70 => ret = Rat(45, 100)
                /\ a = 79 => ret = Rat(50, 100)
                /\ a = 80 => ret = Rat(55, 100)
                /\ a >= 95 => ret = Rat(60, 100)
                /\ (62 <= a /\ a <= 69) => Mul(ret, Num(140)) = Num(49 + (a - 62))
                /\ (70 <= a /\ a <= 79) => Mul(ret, Num(180)) = Num(81 + (a - 70))
                /\ (80 <= a /\ a <= 95) => Mul(ret, Num(300)) = Num(165 + (a - 80))

\* Age 150, above the clamp at 120, returned 0.60.
C8_Witness ==
    /\ Returned("estimatedAvailabilityPct")
    /\ call.args = <<Num(150)>>
    /\ ret = Rat(6, 10)

(***************************************************************************)
(* Properties of the screens, checked under Spec                           *)
(***************************************************************************)
\* C5: on the refinance screen the old and the new payment are the monthly
\* payments of the same balance over the same term at the current and the
\* new rate; monthlySavings is old minus new; with savings > 0 the
\* break-even is the least whole number of months whose savings cover the
\* closing costs, and otherwise it is Infinity, never a month count.
C5_RefinanceBreakEven ==
    activeTab = "refinance" =>
        LET savings == results.monthlySavings
            months == results.breakEvenMonths
        IN  /\ results.oldMonthlyPayment =
                   calculateMonthlyPrincipalAndInterest(
                       inputs.originalLoanBalance, inputs.currentRate, inputs.newTermYears)
            /\ results.newMonthlyPayment =
                   calculateMonthlyPrincipalAndInterest(
                       inputs.originalLoanBalance, inputs.newRate, inputs.newTermYears)
            /\ Add(savings, results.newMonthlyPayment) = results.oldMonthlyPayment
            /\ Gt(savings, Zero) =>
                   /\ IsFinite(months)
                   /\ months.d = 1
                   /\ months.n >= 0
                   /\ Le(inputs.closingCosts, Mul(months, savings))
                   /\ months.n > 0 =>
                          Lt(Mul(Num(months.n - 1), savings), inputs.closingCosts)
            /\ ~Gt(savings, Zero) => months = PosInf

\* A refinance that saves each month and takes more than one month to
\* recover its closing costs.
C5_Witness ==
    /\ activeTab = "refinance"
    /\ Gt(results.monthlySavings, Zero)
    /\ IsFinite(results.breakEvenMonths)
    /\ results.breakEvenMonths.n >= 2

\* C6: the refinance screen shows 'N/A' for the break-even only when the
\* monthly savings are not positive; a computed break-even, 0 months
\* included, is not shown as 'N/A'.
C6_NotApplicableOnlyWithoutSavings ==
    activeTab = "refinance" =>
        (RefinanceShown.breakEven = NotApplicable
            <=> ~Gt(results.monthlySavings, Zero))

\* C7: on the purchase screen loanAmount = max(0, homePrice - downPayment),
\* monthlyPI is the monthly payment of that loan, and the total is
\* monthlyPI + annualPropertyTax / 12 + annualHomeInsurance / 12; with a
\* down payment of at least the price the loan and monthlyPI are 0 and the
\* total is tax plus insurance only.
C7_PurchaseBreakdown ==
    activeTab = "purchase" =>
        LET escrow == Add(inputs.annualPropertyTax, inputs.annualHomeInsurance)
        IN  /\ Le(inputs.downPayment, inputs.homePrice) =>
                   Add(results.loanAmount, inputs.downPayment) = inputs.homePrice
            /\ Ge(inputs.downPayment, inputs.homePrice) =>
                   /\ results.loanAmount = Zero
                   /\ results.monthlyPI = Zero
                   /\ Mul(results.totalMonthlyPayment, Num(12)) = escrow
            /\ results.monthlyPI =
                   calculateMonthlyPrincipalAndInterest(
                       results.loanAmount, inputs.interestRatePercent, inputs.loanTermYears)
            /\ Mul(Sub(results.totalMonthlyPayment, results.monthlyPI), Num(12)) = escrow

\* A down payment above the price: no loan, and a total of tax and insurance.
C7_Witness ==
    /\ activeTab = "purchase"
    /\ Gt(inputs.downPayment, inputs.homePrice)
    /\ inputs.annualPropertyTax = Num(1200)
    /\ inputs.annualHomeInsurance = Num(50)
    /\ results.loanAmount = Zero
    /\ results.totalMonthlyPayment = Rat(625, 6)

\* C9: on the reverse mortgage screen grossPrincipalLimit = homeValue * pct
\* and netPrincipalLimit = max(0, gross - currentMortgageBalance): the net
\* limit is never negative, is 0 when the balance is at least the gross
\* limit, and is the difference otherwise.
C9_NetPrincipalLimit ==
    activeTab = "reverse-mortgage" =>
        LET gross == results.grossPrincipalLimit
            net == results.netPrincipalLimit
        IN  /\ gross = Mul(inputs.homeValue, results.availabilityPct)
            /\ IsFinite(net)
            /\ net.n >= 0
            /\ Ge(inputs.currentMortgageBalance, gross) => net = Zero
            /\ Lt(inputs.currentMortgageBalance, gross) =>
                   Add(net, inputs.currentMortgageBalance) = gross

\* An eligible borrower whose mortgage balance exceeds the gross limit.
C9_Witness ==
    /\ activeTab = "reverse-mortgage"
    /\ Gt(results.grossPrincipalLimit, Zero)
    /\ Gt(inputs.currentMortgageBalance, results.grossPrincipalLimit)
    /\ results.netPrincipalLimit = Zero

\* C10: the borrower is eligible exactly from age 62; below 62, whatever the
\* home value and the mortgage balance, the net principal limit is shown
\* as '$0' and the availability and the gross principal limit as
\* unavailable; from 62 on they are shown as computed.
C10_EligibilityGate ==
    activeTab = "reverse-mortgage" =>
        LET age == inputs.youngestBorrowerAge
            old == age.n >= 62 * age.d
        IN  /\ results.ageEligible <=> old
            /\ ~old =>
                   /\ ReverseShown.notEligibleNotice
                   /\ ReverseShown.netPrincipalLimit = Dollars(0)
                   /\ ReverseShown.availability = Unavailable
                   /\ ReverseShown.grossPrincipalLimit = Unavailable
            /\ old =>
                   /\ ~ReverseShown.notEligibleNotice
                   /\ ReverseShown.availability # Unavailable
                   /\ ReverseShown.grossPrincipalLimit # Unavailable

\* Age 61.5 with a home worth 300 and no mortgage: nothing is offered.
C10_Witness ==
    /\ activeTab = "reverse-mortgage"
    /\ inputs = [youngestBorrowerAge |-> Rat(123, 2),
                 homeValue |-> Num(300),
                 currentMortgageBalance |-> Zero]
    /\ ~results.ageEligible
    /\ ReverseShown.netPrincipalLimit = Dollars(0)

(***************************************************************************)
(* Properties of the 30-year screens, checked under SpecThirtyYear         *)
(***************************************************************************)
\* clamp(round(duration), 1, 50) for a finite duration >= 0, in whole
\* numbers.
PointsExpected(duration) ==
    LET rounded == (2 * duration.n + duration.d) \div (2 * duration.d)
    IN  IF rounded < 1 THEN 1 ELSE IF rounded > 50 THEN 50 ELSE rounded

\* C11: the rent-vs-buy projection has exactly clamp(round(durationYears),
\* 1, 50) points when the callback returns, never more while the loop runs,
\* and the i-th point's year is i: 1, 2, ..., N with no gap and no repeat.
C11_PointsPerYear ==
    activeTab = "rent-vs-buy" =>
        LET N == PointsExpected(inputs.durationYears)
        IN  /\ Len(results.points) <= N
            /\ \A i \in 1..Len(results.points) : results.points[i].year = Num(i)
            /\ results.pc = "returned" => Len(RentVsBuyReturn(results).data) = N

\* A duration over the cap returned 50 points.
C11_Witness ==
    /\ activeTab = "rent-vs-buy"
    /\ results.pc = "returned"
    /\ inputs.durationYears = Num(MaxDuration)
    /\ Len(RentVsBuyReturn(results).data) = 50

\* C12: the crossover year is the smallest simulated year whose netBuyCost is
\* at most that year's cumulative rent cost, at every position of the loop
\* (so a later crossing never replaces it), and null exactly when no year
\* simulated so far satisfies the condition.
C12_FirstCrossover ==
    activeTab = "rent-vs-buy" =>
        LET points == results.points
            Crossing == {i \in 1..Len(points) :
                            Le(points[i].buyNetCost, points[i].rentCost)}
        IN  /\ Crossing = {} => results.firstCrossover = Null
            /\ Crossing # {} =>
                   \E i \in Crossing :
                       /\ \A j \in Crossing : i <= j
                       /\ results.firstCrossover = points[i].year
            /\ results.pc = "returned" =>
                   RentVsBuyReturn(results).crossoverYear = results.firstCrossover

\* A returned projection whose crossover is after year 1 and is followed by
\* later years that satisfy the condition as well.
C12_Witness ==
    /\ activeTab = "rent-vs-buy"
    /\ results.pc = "returned"
    /\ results.firstCrossover # Null
    /\ results.firstCrossover.n > 1
    /\ \E j \in 1..Len(results.points) :
           /\ j > results.firstCrossover.n
           /\ Le(results.points[j].buyNetCost, results.points[j].rentCost)

\* max(0, 0.80 * homeValue - existingBalance), on the stored inputs.
MaxCashOut ==
    LET room == Sub(Mul(inputs.currentHomeValue, Rat(80, 100)),
                    inputs.existingMortgageBalance)
    IN  IF room.n > 0 THEN room ELSE Zero

\* C13: on the cash-out screen, with maxCashOut = max(0, 0.80 * homeValue -
\* existingBalance): a desired cash-out of at most maxCashOut is not capped
\* and is paid out whole; a larger one is capped and maxCashOut is paid out.
C13_CashOutCap ==
    activeTab = "cash-out" =>
        /\ results.maxCashOutAllowed = MaxCashOut
        /\ Le(inputs.desiredCashOutAmount, MaxCashOut) =>
               /\ ~results.wasCapped
               /\ results.adjustedCashOut = inputs.desiredCashOutAmount
        /\ Gt(inputs.desiredCashOutAmount, MaxCashOut) =>
               /\ results.wasCapped
               /\ results.adjustedCashOut = MaxCashOut

\* A home of 200 with a balance of 100 leaves 60: a request of 100 is capped
\* to 60.
C13_Witness ==
    /\ activeTab = "cash-out"
    /\ inputs.currentHomeValue = Num(200)
    /\ inputs.existingMortgageBalance = Num(100)
    /\ inputs.desiredCashOutAmount = Num(100)
    /\ results.wasCapped
    /\ results.adjustedCashOut = Num(60)

\* C14: on the cash-out screen the new loan amount is at most 80% of the
\* home value, for every home value, existing balance and desired cash-out,
\* and so whenever the capped notice is shown.
C14_LoanWithinMaxLtv ==
    activeTab = "cash-out" =>
        Le(results.newLoanAmount, Mul(inputs.currentHomeValue, Rat(80, 100)))

\* C15 as stated: newLoan = existingBalance + actualCashOut, the payment is
\* that of newLoan over 30 years, and ltv = newLoan / homeValue * 100.
C15_Original ==
    activeTab = "cash-out" =>
        /\ results.newLoanAmount =
               Add(inputs.existingMortgageBalance, results.adjustedCashOut)
        /\ results.newMonthlyPayment =
               calculateMonthlyPayment(
                   results.newLoanAmount, inputs.newInterestRate, Num(30))
        /\ results.ltvPercent =
               Mul(Div(results.newLoanAmount, inputs.currentHomeValue), Num(100))

\* C15 (amended): newLoan = existingBalance + actualCashOut; the payment is
\* the monthly payment of newLoan over 30 years (360 periods: at a 0% rate
\* newLoan / 360); ltv = newLoan / homeValue * 100 for a home value above
\* 0, and ltv = 0 for a home value of 0.
C15_NewLoanPaymentLtv ==
    activeTab = "cash-out" =>
        /\ results.newLoanAmount =
               Add(inputs.existingMortgageBalance, results.adjustedCashOut)
        /\ results.newMonthlyPayment =
               calculateMonthlyPayment(
                   results.newLoanAmount, inputs.newInterestRate, Num(30))
        /\ inputs.newInterestRate = Zero =>
               results.newMonthlyPayment = Fl(Div(results.newLoanAmount, Num(360)))
        /\ Gt(inputs.currentHomeValue, Zero) =>
               Mul(results.ltvPercent, inputs.currentHomeValue) =
                   Mul(results.newLoanAmount, Num(100))
        /\ inputs.currentHomeValue = Zero => results.ltvPercent = Zero

\* A home of 200 with a balance of 100 and 60 taken out at 6%: a loan of
\* 160, an LTV of 80 and a payment above 160 / 360.
C15_Witness ==
    /\ activeTab = "cash-out"
    /\ inputs.currentHomeValue = Num(200)
    /\ inputs.newInterestRate = Num(6)
    /\ results.newLoanAmount = Num(160)
    /\ results.ltvPercent = Num(80)
    /\ Gt(results.newMonthlyPayment, Rat(160, 360))

\* max(0, base - points) as the arithmetic gives it: the difference when the
\* base rate is at least the points, 0 otherwise.
FlooredRate(base, points) ==
    IF Ge(base, Num(points)) THEN Sub(base, Num(points)) ELSE Zero

\* C16: in the temporary 2-1 mode the schedule has exactly three rows, for
\* year 1, year 2 and years 3 onward, at the rates max(0, base - 2),
\* max(0, base - 1) and max(0, base); no row has a negative rate.
C16_TemporaryRows ==
    (activeTab = "rate-buydown" /\ inputs.buydownType = "temporary-2-1") =>
        /\ Len(results.schedule) = 3
        /\ results.schedule[1].periodLabel = "Year 1"
        /\ results.schedule[2].periodLabel = "Year 2"
        /\ results.schedule[3].periodLabel = "Year 3-30"
        /\ results.schedule[1].ratePercent = FlooredRate(inputs.baseRatePercent, 2)
        /\ results.schedule[2].ratePercent = FlooredRate(inputs.baseRatePercent, 1)
        /\ results.schedule[3].ratePercent = FlooredRate(inputs.baseRatePercent, 0)
        /\ \A i \in 1..Len(results.schedule) :
               Ge(results.schedule[i].ratePercent, Zero)

\* A base rate of 1.5%: the first year is floored at 0, the second is 0.5%.
C16_Witness ==
    /\ activeTab = "rate-buydown"
    /\ inputs.buydownType = "temporary-2-1"
    /\ inputs.baseRatePercent = Rat(3, 2)
    /\ Len(results.schedule) = 3
    /\ results.schedule[1].ratePercent = Zero
    /\ results.schedule[2].ratePercent = Rat(1, 2)
    /\ results.schedule[3].ratePercent = Rat(3, 2)

\* C17: in the temporary mode the rows of year 1 and year 2 always carry
\* savings, the base payment less the row's payment per month and twelve
\* times that per year, also when the savings are 0; the row of years 3
\* onward has no savings field, and the table shows a dash for it.
C17_SavingsFields ==
    (activeTab = "rate-buydown" /\ inputs.buydownType = "temporary-2-1") =>
        /\ \A i \in 1..2 :
               LET row == results.schedule[i]
               IN  /\ {"savingsMonthly", "savingsAnnual"} \subseteq DOMAIN row
                   /\ row.savingsMonthly =
                          Sub(results.baseMonthlyPayment, row.monthlyPayment)
                   /\ row.savingsAnnual = Mul(row.savingsMonthly, Num(12))
                   /\ hasSavings(row)
                   /\ BuydownShown.rows[i].savings =
                          formatCurrency(row.savingsMonthly)
        /\ {"savingsMonthly", "savingsAnnual"} \cap DOMAIN results.schedule[3] = {}
        /\ ~hasSavings(results.schedule[3])
        /\ BuydownShown.rows[3].savings = Unavailable

\* A loan at a base rate of 0%: the savings of both years are 0 and shown
\* as an amount of 0, while the last row shows a dash.
C17_Witness ==
    /\ activeTab = "rate-buydown"
    /\ inputs.buydownType = "temporary-2-1"
    /\ Gt(inputs.loanAmount, Zero)
    /\ inputs.baseRatePercent = Zero
    /\ results.schedule[1].savingsMonthly = Zero
    /\ results.schedule[2].savingsAnnual = Zero
    /\ BuydownShown.rows[1].savings = formatCurrency(Zero)
    /\ BuydownShown.rows[3].savings = Unavailable

\* C18: in the mode 'none' the schedule is exactly one row, over the full
\* term, at the rate max(0, base rate) and the base monthly payment, with
\* no savings field.
C18_NoBuydownRow ==
    (activeTab = "rate-buydown" /\ inputs.buydownType = "none") =>
        /\ Len(results.schedule) = 1
        /\ results.schedule[1].periodLabel = "Year 1-30"
        /\ results.schedule[1].ratePercent = FlooredRate(inputs.baseRatePercent, 0)
        /\ results.schedule[1].monthlyPayment = results.baseMonthlyPayment
        /\ results.baseMonthlyPayment =
               calculateMonthlyPayment(
                   inputs.loanAmount, inputs.baseRatePercent, Num(30))
        /\ {"savingsMonthly", "savingsAnnual"} \cap DOMAIN results.schedule[1] = {}
        /\ BuydownShown.rows[1].savings = Unavailable

\* A loan at 6% without a buydown: one row with a payment above loan / 360.
C18_Witness ==
    /\ activeTab = "rate-buydown"
    /\ inputs.buydownType = "none"
    /\ Gt(inputs.loanAmount, Zero)
    /\ inputs.baseRatePercent = Num(6)
    /\ Len(results.schedule) = 1
    /\ Gt(Mul(results.schedule[1].monthlyPayment, Num(360)), inputs.loanAmount)

MonthlySteps == [balance : Numbers, payment : Numbers, r : Numbers, m : Nat]

\* Monthly steps as the amortization is described: interest = balance * r,
\* principal = max(0, payment - interest), balance = max(0, balance -
\* principal), a.m times over.
MonthlyStepsOf[a \in MonthlySteps] ==
    IF a.m = 0
    THEN a.balance
    ELSE LET interest == FlMul(a.balance, a.r)
             principal == MathMax(Zero, FlSub(a.payment, interest))
         IN  MonthlyStepsOf[
                 [a EXCEPT !.balance = MathMax(Zero, FlSub(a.balance, principal)),
                           !.m = a.m - 1]]

\* C20: a year of the rent-vs-buy loop takes the remaining balance and the
\* cumulative principal from the year before, never from the loan amount or
\* 0: the balance after the year is the balance before it advanced by 12
\* monthly steps, it stays at or above 0 and never grows, and while a
\* balance remains the principal paid grows by what the balance fell.
C20_BalanceCarried ==
    [][(/\ activeTab = "rent-vs-buy"
        /\ results.pc = "loop"
        /\ results'.pc = "loop"
        /\ inputs' = inputs
        /\ results' # results)
       => /\ results'.remainingBalance =
                 MonthlyStepsOf[[balance |-> results.remainingBalance,
                                 payment |-> results.monthlyMortgagePayment,
                                 r |-> results.r,
                                 m |-> 12]]
          /\ Ge(results'.remainingBalance, Zero)
          /\ Le(results'.remainingBalance, results.remainingBalance)
          /\ Ge(results'.cumulativePrincipalPaid, results.cumulativePrincipalPaid)
          /\ Gt(results'.remainingBalance, Zero) =>
                 Sub(results'.cumulativePrincipalPaid, results.cumulativePrincipalPaid)
                     = Sub(results.remainingBalance, results'.remainingBalance)]_vars

\* The loop after at least two years of a loan: a balance below the loan
\* amount and above 0, with the principal paid so far making up the rest.
C20_Witness ==
    /\ activeTab = "rent-vs-buy"
    /\ results.pc = "loop"
    /\ results.year.n >= 3
    /\ Gt(results.remainingBalance, Zero)
    /\ Lt(results.remainingBalance, results.loanAmount)
    /\ Add(results.remainingBalance, results.cumulativePrincipalPaid) =
           results.loanAmount

\* The year of the point the loop produced last.
LastYear == Len(results.points)

\* homeValue(year) of the last simulated year: price0 * (1 + appr)^(year - 1)
LastHomeValue ==
    FlMul(results.price0, FlPow(FlAdd(One, results.appr), Num(LastYear - 1)))

\* The cash outlay after the last simulated year.
LastCashOut ==
    Add(Add(Add(results.downPayment, results.cumulativeMortgagePaid),
            results.cumulativeTaxPaid),
        results.cumulativeMaintenancePaid)

\* The equity after the last simulated year.
LastEquity ==
    LET gain == Sub(LastHomeValue, results.price0)
    IN  Add(Add(results.downPayment, results.cumulativePrincipalPaid),
            IF Gt(gain, Zero) THEN gain ELSE Zero)

\* C21: after every simulated year the point's net buy cost is
\* max(0, cashOut - equity), with cashOut = down payment + mortgage paid +
\* tax + maintenance so far and equity = down payment + principal paid so
\* far + max(0, homeValue(year) - price0); every point has a rent cost and a
\* net buy cost of at least 0, and the rent cost never falls from one point
\* to the next.
C21_NetBuyCost ==
    activeTab = "rent-vs-buy" =>
        /\ LastYear >= 1 =>
               /\ results.year = Num(LastYear + 1)
               /\ results.points[LastYear].rentCost = results.cumulativeRentCost
               /\ results.points[LastYear].buyNetCost =
                      IF Gt(LastCashOut, LastEquity)
                      THEN Sub(LastCashOut, LastEquity)
                      ELSE Zero
        /\ \A i \in 1..LastYear :
               /\ Ge(results.points[i].rentCost, Zero)
               /\ Ge(results.points[i].buyNetCost, Zero)
        /\ \A i \in 1..(LastYear - 1) :
               Le(results.points[i].rentCost, results.points[i + 1].rentCost)

\* A projection whose equity has outgrown the cash outlay: the last point's
\* net buy cost is floored at 0 after a first year with a cost above 0 and
\* a growing rent cost.
C21_Witness ==
    /\ activeTab = "rent-vs-buy"
    /\ LastYear >= 2
    /\ Lt(LastCashOut, LastEquity)
    /\ results.points[LastYear].buyNetCost = Zero
    /\ Gt(results.points[1].buyNetCost, Zero)
    /\ Gt(results.points[1].rentCost, Zero)
    /\ Lt(results.points[1].rentCost, results.points[LastYear].rentCost)

\* C22: the rent-vs-buy simulation ends for every duration: a run that is
\* in its loop returns; it takes at most 50 turns of the year loop and at
\* most 600 monthly steps in all, no more than 12 a year; and a year that
\* starts with a balance of 0 takes no monthly step.
C22_Terminates ==
    /\ [](activeTab = "rent-vs-buy" =>
              /\ Len(results.points) <= 50
              /\ results.monthlySteps <= 600
              /\ results.monthlySteps <= 12 * Len(results.points))
    /\ [][(/\ activeTab = "rent-vs-buy"
           /\ results.pc = "loop"
           /\ results'.pc = "loop"
           /\ inputs' = inputs
           /\ results' # results
           /\ Le(results.remainingBalance, Zero))
          => results'.monthlySteps = results.monthlySteps]_vars
    /\ (activeTab = "rent-vs-buy" /\ results.pc = "loop")
           ~> (activeTab = "rent-vs-buy" /\ results.pc = "returned")

\* A run over the cap of 50 years has returned: it took 50 turns, and its
\* monthly steps ended with the loan, well before 12 a year for 50 years.
C22_Witness ==
    /\ activeTab = "rent-vs-buy"
    /\ results.pc = "returned"
    /\ inputs.durationYears = Num(MaxDuration)
    /\ Len(results.points) = 50
    /\ results.remainingBalance = Zero
    /\ results.monthlySteps > 12 * 29
    /\ results.monthlySteps < 12 * 50

\* C24: a year of the rent-vs-buy loop that begins with a remaining balance
\* of 0 (the years after the loan is paid off) adds no mortgage payment to
\* cumulativeMortgagePaid.
C24_NoPaymentAfterPayoff ==
    [][(/\ activeTab = "rent-vs-buy"
        /\ results.pc = "loop"
        /\ results'.pc = "loop"
        /\ inputs' = inputs
        /\ results' # results
        /\ results.remainingBalance = Zero)
       => results'.cumulativeMortgagePaid = results.cumulativeMortgagePaid]_vars

Within(x, low, high) == Ge(x, low) /\ Le(x, high)

\* C23: for every age of 62 or more, whole or fractional,
\* estimatedAvailabilityPct returns a value inside one of the three bands
\* 0.35..0.40, 0.45..0.50 and 0.55..0.60.
C23_WithinBands ==
    Returned("estimatedAvailabilityPct") =>
        LET age == call.args[1]
        IN  (IsFinite(age) /\ Ge(age, Num(62))) =>
                \/ Within(ret, Rat(35, 100), Rat(40, 100))
                \/ Within(ret, Rat(45, 100), Rat(50, 100))
                \/ Within(ret, Rat(55, 100), Rat(60, 100))

(***************************************************************************)
(* Payments at two rates, checked under SpecRates                          *)
(***************************************************************************)
\* The payment function `fn` applied.
PaymentBy(fn, principal, annualRatePercent, termYears) ==
    IF fn = "calculateMonthlyPayment"
    THEN calculateMonthlyPayment(principal, annualRatePercent, termYears)
    ELSE calculateMonthlyPrincipalAndInterest(principal, annualRatePercent, termYears)

\* C26: for a principal above 0 and at least one period the monthly payment
\* does not fall when the rate rises; so in the temporary 2-1 buydown the
\* savings of year 1 are at least those of year 2, which are at least 0,
\* and the payment of the years 3 onward is the base payment; and on the
\* refinance screen a new rate below the current rate never gives monthly
\* savings below 0.
C26_PaymentGrowsWithRate ==
    /\ \A fn \in PaymentFns :
           Returned(fn) =>
               LET principal == call.args[1]
                   rate == call.args[2]
                   term == call.args[3]
               IN  (/\ IsFinite(principal) /\ Gt(principal, Zero)
                    /\ IsFinite(rate)
                    /\ IsFinite(term) /\ Ge(MathRound(Mul(term, Num(12))), One))
                   => \A higher \in RateArgs :
                          (IsFinite(higher) /\ Le(rate, higher)) =>
                              Le(ret, PaymentBy(fn, principal, higher, term))
    /\ (activeTab = "rate-buydown" /\ inputs.buydownType = "temporary-2-1") =>
           /\ Ge(results.schedule[1].savingsMonthly,
                 results.schedule[2].savingsMonthly)
           /\ Ge(results.schedule[2].savingsMonthly, Zero)
           /\ results.schedule[3].monthlyPayment = results.baseMonthlyPayment
    /\ (activeTab = "refinance" /\ Lt(inputs.newRate, inputs.currentRate)) =>
           Ge(results.monthlySavings, Zero)

\* A buydown of a loan at 3%: the savings of year 1 are above those of
\* year 2, which are above 0.
C26_Witness ==
    /\ activeTab = "rate-buydown"
    /\ inputs.buydownType = "temporary-2-1"
    /\ inputs.baseRatePercent = Num(3)
    /\ Gt(inputs.loanAmount, Zero)
    /\ Gt(results.schedule[1].savingsMonthly, results.schedule[2].savingsMonthly)
    /\ Gt(results.schedule[2].savingsMonthly, Zero)

(***************************************************************************)
(* The tabbed application: App holds activeTab and mounts the one screen   *)
(* whose condition holds; a screen that is mounted starts from the initial *)
(* values of its useState cells, and React keeps the cells of a screen     *)
(* that stays mounted.  The amounts are the ones of the source.            *)
(***************************************************************************)
TABS ==
    <<"purchase", "refinance", "rent-vs-buy", "cash-out", "rate-buydown",
      "reverse-mortgage", "embed">>

TabKey == {TABS[i] : i \in DOMAIN TABS}

Screens ==
    {"PurchaseCalculator", "RefinanceCalculator", "RentVsBuyCalculator",
     "CashOutCalculator", "RateBuydownCalculator", "ReverseMortgageCalculator",
     "EmbedBuilder"}

\* The children App renders below the tab bar.
Children(tab) ==
    {c \in Screens :
        \/ tab = "purchase" /\ c = "PurchaseCalculator"
        \/ tab = "refinance" /\ c = "RefinanceCalculator"
        \/ tab = "rent-vs-buy" /\ c = "RentVsBuyCalculator"
        \/ tab = "cash-out" /\ c = "CashOutCalculator"
        \/ tab = "rate-buydown" /\ c = "RateBuydownCalculator"
        \/ tab = "reverse-mortgage" /\ c = "ReverseMortgageCalculator"
        \/ tab = "embed" /\ c = "EmbedBuilder"}

DEFAULT_THEME ==
    [bg |-> "#ffffff",
     surface |-> "#ffffff",
     surfaceMuted |-> "#f8fafc",
     border |-> "#e2e8f0",
     text |-> "#0f172a",
     muted |-> "#64748b",
     primary |-> "#1e1b4b",
     primaryContrast |-> "#ffffff",
     inputBg |-> "#ffffff",
     inputBorder |-> "#e2e8f0",
     ring |-> "rgba(30, 27, 75, 0.10)",
     chart |->
        [primaryFrom |-> "#00f2fe",
         primaryTo |-> "#4facfe",
         secondaryFrom |-> "#fe8c00",
         secondaryTo |-> "#f83600",
         accentFrom |-> "#22d3ee",
         accentTo |-> "#22c55e",
         neutralFrom |-> "#e2e8f0",
         neutralTo |-> "#94a3b8"]]

PurchaseDefaults ==
    [homePrice |-> Num(400000),
     downPayment |-> Num(80000),
     interestRatePercent |-> Rat(13, 2),
     loanTermYears |-> Num(30),
     annualPropertyTax |-> Num(4000),
     annualHomeInsurance |-> Num(1200)]

RefinanceDefaults ==
    [originalLoanBalance |-> Num(320000),
     currentRate |-> Rat(29, 4),
     newRate |-> Rat(13, 2),
     newTermYears |-> Num(30),
     closingCosts |-> Num(6000)]

RentVsBuyDefaults ==
    [targetHomePrice |-> Num(400000),
     currentMonthlyRent |-> Num(2500),
     rentInflationPct |-> Num(3),
     homeAppreciationPct |-> Num(3),
     durationYears |-> Num(10)]

CashOutDefaults ==
    [currentHomeValue |-> Num(500000),
     existingMortgageBalance |-> Num(250000),
     desiredCashOutAmount |-> Num(50000),
     newInterestRate |-> Rat(27, 4)]

BuydownDefaults ==
    [buydownType |-> "temporary-2-1",
     loanAmount |-> Num(320000),
     baseRatePercent |-> Rat(13, 2)]

ReverseDefaults ==
    [youngestBorrowerAge |-> Num(70),
     homeValue |-> Num(500000),
     currentMortgageBalance |-> Num(150000)]

EmbedBuilderDefaults ==
    [calculator |-> "purchase",
     theme |-> DEFAULT_THEME,
     generatedCode |-> <<>>,
     copyState |-> "idle"]

\* The useState cells of the screen of `tab` when it mounts.
UseStateDefaults(tab) ==
    CASE tab = "purchase" -> PurchaseDefaults
      [] tab = "refinance" -> RefinanceDefaults
      [] tab = "rent-vs-buy" -> RentVsBuyDefaults
      [] tab = "cash-out" -> CashOutDefaults
      [] tab = "rate-buydown" -> BuydownDefaults
      [] tab = "reverse-mortgage" -> ReverseDefaults
      [] tab = "embed" -> EmbedBuilderDefaults

\* Every selection mounts a fresh screen.
RemountedCells(key, tab, cells) == UseStateDefaults(key)

\* The cells of the screen shown after setActiveTab(key) while `tab` was
\* active: setting the state to the value it has is no update, the screen
\* stays mounted and keeps its cells; any other key unmounts it and mounts
\* the screen of `key`.
CellsAfterSelect(key, tab, cells) ==
    IF key = tab THEN cells ELSE UseStateDefaults(key)

InitApp ==
    /\ activeTab = "purchase"
    /\ inputs = UseStateDefaults(activeTab)
    /\ results = Children(activeTab)
    /\ call = NoCall
    /\ ret = NoRet
    /\ browser = NoBrowser

\* A click on a button of the tab bar.
SetActiveTab ==
    \E key \in TabKey :
        /\ activeTab' = key
        /\ inputs' = CellsAfterSelect(key, activeTab, inputs)
        /\ results' = Children(key)
        /\ call' = [fn |-> "setActiveTab", args |-> <<key>>]
        /\ UNCHANGED <<ret, browser>>

\* The amounts typed into the fields of the tabbed application.
TypedValues == {Zero, Num(1)}

\* All cells of a calculator hold numbers but the buydown type.
NumberCells(cells) == DOMAIN cells \ {"buydownType"}

\* The onChange of a number field of the mounted calculator: the setter of
\* its cell; App does not render again.
TypeAmount ==
    /\ activeTab # "embed"
    /\ \E f \in NumberCells(inputs), v \in TypedValues :
          /\ inputs' = [inputs EXCEPT ![f] = v]
          /\ call' = [fn |-> "onChange", args |-> <<f>>]
    /\ UNCHANGED <<activeTab, results, ret, browser>>

CalculatorKey ==
    {"purchase", "refinance", "rent-vs-buy", "cash-out", "rate-buydown",
     "reverse-mortgage"}

\* The onChange of the embed builder's calculator select.
SetCalculator ==
    /\ activeTab = "embed"
    /\ \E value \in CalculatorKey :
          /\ inputs' = [inputs EXCEPT !.calculator = value]
          /\ call' = [fn |-> "setCalculator", args |-> <<value>>]
    /\ UNCHANGED <<activeTab, results, ret, browser>>

NextApp ==
    \/ SetActiveTab
    \/ TypeAmount
    \/ SetCalculator

SpecApp == InitApp /\ [][NextApp]_vars

\* C27 as stated: exactly one screen is mounted, the one of activeTab,
\* which starts at 'purchase'; and whenever a tab has just been selected,
\* its screen shows the default input values.
C27_DefaultsAfterEverySelect ==
    /\ results = Children(activeTab)
    /\ Cardinality(results) = 1
    /\ call = NoCall => activeTab = "purchase"
    /\ call.fn \in {"none", "setActiveTab"} => inputs = UseStateDefaults(activeTab)

\* C27: exactly one screen is mounted at any time, the one of activeTab,
\* which starts at 'purchase' with the default inputs; selecting a tab other
\* than the active one shows its screen with the default input values,
\* whatever was typed there before; selecting the active tab again keeps
\* what was typed.
C27_OneScreenFreshOnSwitch ==
    /\ [](/\ results = Children(activeTab)
          /\ Cardinality(results) = 1
          /\ call = NoCall =>
                activeTab = "purchase" /\ inputs = UseStateDefaults("purchase"))
    /\ [][/\ activeTab' # activeTab => inputs' = UseStateDefaults(activeTab')
          /\ call'.fn = "setActiveTab" /\ activeTab' = activeTab =>
                inputs' = inputs]_vars

\* The refinance tab has just been selected from another tab: its screen
\* alone is mounted and its cells hold the defaults.
C27_Witness ==
    /\ call = [fn |-> "setActiveTab", args |-> <<"refinance">>]
    /\ activeTab = "refinance"
    /\ results = {"RefinanceCalculator"}
    /\ inputs = RefinanceDefaults

(***************************************************************************)
(* The theme parameter of the embed URL.  A JSON value is a record of its  *)
(* type and content, a text is a record of whether it is JSON text and of  *)
(* which value, a byte string is a record of whether it is UTF-8 and of    *)
(* which text, and a parameter is a record of whether it is base64url and  *)
(* of which bytes: encoding wraps a value, decoding must find the wrapping *)
(* it expects.                                                             *)
(***************************************************************************)
\* A JSON value: its type, its characters if it is a string, its members if
\* it is an object.
NoMembers == [f \in {} |-> f]

JsonNull == [type |-> "null", string |-> "", members |-> NoMembers]

JsonNumber == [type |-> "number", string |-> "", members |-> NoMembers]

JsonArray == [type |-> "array", string |-> "", members |-> NoMembers]

JsonString(s) == [type |-> "string", string |-> s, members |-> NoMembers]

JsonObject(fields) == [type |-> "object", string |-> "", members |-> fields]

\* The value JSON.stringify writes for a theme: an object of strings with
\* the chart object inside.
ThemeToJson(theme) ==
    JsonObject(
        [f \in DOMAIN theme |->
            IF f = "chart"
            THEN JsonObject([g \in DOMAIN theme.chart |-> JsonString(theme.chart[g])])
            ELSE JsonString(theme[f])])

JSONStringify(theme) == [syntax |-> "json", value |-> ThemeToJson(theme)]

\* btoa(unescape(encodeURIComponent(input))) with +, / and the padding
\* replaced: the base64url text of the UTF-8 bytes of input.
base64UrlEncode(input) ==
    [alphabet |-> "base64url", bytes |-> [encoding |-> "utf8", text |-> input]]

encodeThemeToParam(theme) == base64UrlEncode(JSONStringify(theme))

\* { ...DEFAULT_THEME, ...p, chart: { ...DEFAULT_THEME.chart, ...(p.chart ?? {}) } }
\* for a partial theme given as a function on some of the field names, its
\* chart (if any) as a function on some of the chart's field names.
mergeTheme(partial) ==
    [f \in DOMAIN DEFAULT_THEME |->
        IF f = "chart"
        THEN [g \in DOMAIN DEFAULT_THEME.chart |->
                IF "chart" \in DOMAIN partial /\ g \in DOMAIN partial.chart
                THEN partial.chart[g]
                ELSE DEFAULT_THEME.chart[g]]
        ELSE IF f \in DOMAIN partial THEN partial[f] ELSE DEFAULT_THEME[f]]

(***************************************************************************)
(* The embed builder: Generate builds the iframe code of the calculator    *)
(* and theme chosen; Copy starts an asynchronous clipboard write of the    *)
(* code displayed at the click, and the rest of the handler runs when the  *)
(* write has settled; each successful copy starts a timer that sets        *)
(* copyState back.                                                         *)
(***************************************************************************)
\* window.location.origin
Origin == "https://calculators.example"

\* The strings passed (a calculator key, base64url text) consist of
\* unreserved characters, which encodeURIComponent leaves as they are.
encodeURIComponent(str) == str

IframeCode(calculator, theme) ==
    <<"<iframe src=\"", Origin, "/embed?calculator=", encodeURIComponent(calculator),
      "&t=", encodeURIComponent(encodeThemeToParam(mergeTheme(theme))),
      "\" style=\"border:0;width:100%;max-width:980px;height:820px;\" loading=\"lazy\" referrerpolicy=\"no-referrer-when-downgrade\"></iframe>">>

\* Clipboard writes in flight plus reset timers pending, at most.
MaxPending == 2

\* The colours picked in the model.
PickedColors == {"#000000"}

InitEmbed ==
    /\ activeTab = "embed"
    /\ inputs = EmbedBuilderDefaults
    /\ results = Children(activeTab)
    /\ call = NoCall
    /\ ret = NoRet
    /\ browser = NoBrowser

\* onChange of the ColorField of the primary colour.
SetThemePrimary ==
    /\ activeTab = "embed"
    /\ \E v \in PickedColors :
          /\ inputs' = [inputs EXCEPT !.theme = [inputs.theme EXCEPT !.primary = v]]
          /\ call' = [fn |-> "setTheme", args |-> <<v>>]
    /\ UNCHANGED <<activeTab, results, ret, browser>>

\* The Reset button.
ResetTheme ==
    /\ activeTab = "embed"
    /\ inputs' = [inputs EXCEPT !.theme = DEFAULT_THEME]
    /\ call' = [fn |-> "setTheme", args |-> <<"DEFAULT_THEME">>]
    /\ UNCHANGED <<activeTab, results, ret, browser>>

\* The Generate Calculator button.
Generate ==
    /\ activeTab = "embed"
    /\ inputs' = [inputs EXCEPT
                    !.generatedCode = IframeCode(inputs.calculator, inputs.theme),
                    !.copyState = "idle"]
    /\ call' = [fn |-> "generate", args |-> <<>>]
    /\ UNCHANGED <<activeTab, results, ret, browser>>

\* navigator.clipboard.writeText(text) up to the await.
StartWrite(window, text) ==
    [window EXCEPT !.writes = Append(window.writes, text)]

\* copy() up to its await: nothing without code; otherwise the write of the
\* code of this render starts.  (The Copy button is rendered only while
\* there is code; the handler checks again.)
Copy ==
    /\ activeTab = "embed"
    /\ Len(browser.writes) + browser.timers < MaxPending
    /\ browser' = IF inputs.generatedCode = <<>>
                  THEN browser
                  ELSE StartWrite(browser, inputs.generatedCode)
    /\ call' = [fn |-> "copy", args |-> <<>>]
    /\ UNCHANGED <<activeTab, inputs, results, ret>>

RemoveAt(seq, i) == SubSeq(seq, 1, i - 1) \o SubSeq(seq, i + 1, Len(seq))

\* No timer is started.
CopiedWithoutTimer(window, i) ==
    [window EXCEPT !.clipboard = window.writes[i],
                   !.writes = RemoveAt(window.writes, i)]

\* The window after the i-th write in flight has succeeded and copy() has
\* run on: the text is on the clipboard and the reset timer is set.
AfterCopied(window, i) ==
    [window EXCEPT !.clipboard = window.writes[i],
                   !.writes = RemoveAt(window.writes, i),
                   !.timers = window.timers + 1]

\* A write in flight succeeds, and copy() continues after its await.
WriteResolves ==
    /\ activeTab = "embed"
    /\ \E i \in DOMAIN browser.writes :
          browser' = AfterCopied(browser, i)
    /\ inputs' = [inputs EXCEPT !.copyState = "copied"]
    /\ call' = [fn |-> "writeText", args |-> <<"resolved">>]
    /\ UNCHANGED <<activeTab, results, ret>>

\* A write in flight fails, and copy() continues in its catch.
WriteRejects ==
    /\ activeTab = "embed"
    /\ \E i \in DOMAIN browser.writes :
          browser' = [browser EXCEPT !.writes = RemoveAt(browser.writes, i)]
    /\ inputs' = [inputs EXCEPT !.copyState = "idle"]
    /\ call' = [fn |-> "writeText", args |-> <<"rejected">>]
    /\ UNCHANGED <<activeTab, results, ret>>

\* A reset timer fires, 1500 ms after its copy.
TimerFires ==
    /\ activeTab = "embed"
    /\ browser.timers > 0
    /\ browser' = [browser EXCEPT !.timers = browser.timers - 1]
    /\ inputs' = [inputs EXCEPT !.copyState = "idle"]
    /\ call' = [fn |-> "setTimeout", args |-> <<"fired">>]
    /\ UNCHANGED <<activeTab, results, ret>>

\* The code displayed varies with the theme; the calculator select, which
\* varies it in the same way, is stepped in the tabbed application.
NextEmbed ==
    \/ SetThemePrimary
    \/ ResetTheme
    \/ Generate
    \/ Copy
    \/ WriteResolves
    \/ WriteRejects
    \/ TimerFires

SpecEmbed == InitEmbed /\ [][NextEmbed]_vars

\* The browser settles every clipboard write and fires every timer.
SpecEmbedFair ==
    /\ SpecEmbed
    /\ WF_vars(WriteResolves \/ WriteRejects)
    /\ WF_vars(TimerFires)

\* C28: whenever copyState is 'copied', the text last written to the
\* clipboard is the code displayed.
C28_ClipboardIsDisplayedCode ==
    inputs.copyState = "copied" => browser.clipboard = inputs.generatedCode

\* C29: Copy does nothing while there is no generated code; a successful
\* copy sets copyState to 'copied', a reset timer is pending whenever it is
\* 'copied', and 'copied' always leads back to 'idle'; a failed write and
\* every Generate click leave copyState 'idle'.
C29_CopiedThenIdle ==
    /\ [][call'.fn = "copy" /\ inputs.generatedCode = <<>> =>
            UNCHANGED <<inputs, browser>>]_vars
    /\ [](call = [fn |-> "writeText", args |-> <<"resolved">>] =>
            inputs.copyState = "copied")
    /\ [](inputs.copyState = "copied" => browser.timers > 0)
    /\ (inputs.copyState = "copied") ~> (inputs.copyState = "idle")
    /\ [](call = [fn |-> "writeText", args |-> <<"rejected">>] =>
            inputs.copyState = "idle")
    /\ [](call.fn = "generate" => inputs.copyState = "idle")

\* A copy has succeeded: 'copied' is shown and its timer is pending.
C29_Witness ==
    /\ call = [fn |-> "writeText", args |-> <<"resolved">>]
    /\ inputs.copyState = "copied"
    /\ browser.timers > 0
    /\ browser.clipboard = inputs.generatedCode
    /\ inputs.generatedCode # <<>>

(***************************************************************************)
(* Reading the theme parameter back.  A function that can throw returns a  *)
(* record: k = "returned" with the value, or k = "threw" with the name of  *)
(* the error.                                                              *)
(***************************************************************************)
Normal(v) == [k |-> "returned", value |-> v]

Threw(error) == [k |-> "threw", value |-> error]

JsonBoolean == [type |-> "boolean", string |-> "", members |-> NoMembers]

\* What reading a property an object does not have gives.
Undefined == [type |-> "undefined", string |-> "", members |-> NoMembers]

\* Text that is not JSON: JSON.parse throws on it.
NotJson == [syntax |-> "other", value |-> JsonNull]

JsonText(v) == [syntax |-> "json", value |-> v]

\* Bytes that are not the UTF-8 encoding of any text.
NotUtf8 == [encoding |-> "invalid", text |-> NotJson]

Utf8(text) == [encoding |-> "utf8", text |-> text]

\* params.get('t') without a t parameter, with an empty one, with one that
\* is not base64url text (a character outside the alphabet, a length of
\* 4k + 1), and with the base64url text of bytes.
NullParam == [alphabet |-> "null", bytes |-> NotUtf8]

EmptyParam == [alphabet |-> "empty", bytes |-> NotUtf8]

NotBase64 == [alphabet |-> "other", bytes |-> NotUtf8]

Base64Url(bytes) == [alphabet |-> "base64url", bytes |-> bytes]

\* The strings that trim() empties.
WhitespaceStrings == {"", "  "}

trim(str) == IF str \in WhitespaceStrings THEN "" ELSE str

\* The colour values of a parameter's object, Undefined for a missing field.
ColorJsons ==
    {Undefined, JsonNull, JsonNumber, JsonString(""), JsonString("  "),
     JsonString("#000000")}

\* An object of the fields of `fields` that are not Undefined.
ObjectOf(fields) ==
    JsonObject([f \in {g \in DOMAIN fields : fields[g].type # "undefined"} |-> fields[f]])

ChartJsons ==
    {Undefined, JsonNull, JsonArray, JsonString("#000000")}
        \cup {ObjectOf([primaryFrom |-> c]) : c \in ColorJsons}

\* The themes of the embed builder in the model.
BuilderThemes ==
    {DEFAULT_THEME} \cup {[DEFAULT_THEME EXCEPT !.primary = v] : v \in PickedColors}

ObjectJsons ==
    {ObjectOf([bg |-> b, chart |-> c]) : b \in ColorJsons, c \in ChartJsons}
        \cup {ThemeToJson(theme) : theme \in BuilderThemes}

JsonValues ==
    {JsonNull, JsonNumber, JsonBoolean, JsonArray, JsonString(""), JsonString("#000000")}
        \cup ObjectJsons

ThemeParams ==
    {NullParam, EmptyParam, NotBase64, Base64Url(NotUtf8), Base64Url(Utf8(NotJson))}
        \cup {Base64Url(Utf8(JsonText(v))) : v \in JsonValues}

\* Where the page runs: atob is defined in every browser, Buffer alone in
\* some server-side runtimes.
Platforms == {"atob", "Buffer"}

\* atob throws on text that is not base64, decodeURIComponent(escape(...))
\* on bytes that are not UTF-8; Buffer skips what is not base64 and decodes
\* bytes that are not UTF-8 to replacement characters.  Nothing here
\* catches.
base64UrlDecode(input, platform) ==
    CASE platform = "atob" ->
            IF input.alphabet # "base64url" THEN Threw("InvalidCharacterError")
            ELSE IF input.bytes.encoding # "utf8" THEN Threw("URIError")
            ELSE Normal(input.bytes.text)
      [] platform = "Buffer" ->
            IF input.alphabet # "base64url" THEN Normal(NotJson)
            ELSE IF input.bytes.encoding # "utf8" THEN Normal(NotJson)
            ELSE Normal(input.bytes.text)
      [] OTHER -> Normal(NotJson)

\* JSON.parse in a try: undefined for text that is not JSON.
safeJsonParse(input) == IF input.syntax = "json" THEN input.value ELSE Undefined

isRecord(value) == value.type = "object"

\* !parsed
Falsy(value) ==
    \/ value.type \in {"undefined", "null"}
    \/ value.type = "string" /\ value.string = ""

\* parsed[f]
Property(object, f) ==
    IF f \in DOMAIN object.members THEN object.members[f] ELSE Undefined

coerceColor(v, fallback) ==
    IF v.type = "string" /\ trim(v.string) # "" THEN v.string ELSE fallback

TopFields == DOMAIN DEFAULT_THEME \ {"chart"}

\* The partial theme decodeThemeFromParam builds from the parsed object:
\* its chart is left out where the code sets it to undefined.
PartialOf(parsed) ==
    LET chart == Property(parsed, "chart")
        colors == [f \in TopFields |-> coerceColor(Property(parsed, f), DEFAULT_THEME[f])]
        chartColors ==
            [g \in DOMAIN DEFAULT_THEME.chart |->
                coerceColor(Property(chart, g), DEFAULT_THEME.chart[g])]
    IN  [f \in IF isRecord(chart) THEN DOMAIN DEFAULT_THEME ELSE TopFields |->
            IF f = "chart" THEN chartColors ELSE colors[f]]

decodeThemeFromParam(param, platform) ==
    IF param.alphabet \in {"null", "empty"} THEN Normal(DEFAULT_THEME)
    ELSE LET decoded == base64UrlDecode(param, platform)
             parsed == safeJsonParse(decoded.value)
         IN  IF decoded.k = "threw" THEN decoded
             ELSE IF Falsy(parsed) \/ ~isRecord(parsed) THEN Normal(DEFAULT_THEME)
             ELSE Normal(mergeTheme(PartialOf(parsed)))

InitTheme ==
    /\ activeTab = Unmounted
    /\ inputs = <<>>
    /\ results = <<>>
    /\ ret = NoRet
    /\ browser = NoBrowser
    /\ \E param \in ThemeParams, platform \in Platforms :
          call = [fn |-> "decodeThemeFromParam", args |-> <<param, platform>>]

\* EmbedPage renders: decodeThemeFromParam(params.get('t')).
CallDecodeThemeFromParam ==
    /\ call.fn = "decodeThemeFromParam"
    /\ ret = NoRet
    /\ ret' = decodeThemeFromParam(call.args[1], call.args[2])
    /\ UNCHANGED <<activeTab, inputs, results, call, browser>>

NextTheme == CallDecodeThemeFromParam

SpecTheme == InitTheme /\ [][NextTheme]_vars

\* A theme with every field present and no colour empty or blank.
CompleteTheme(theme) ==
    /\ DOMAIN theme = DOMAIN DEFAULT_THEME
    /\ DOMAIN theme.chart = DOMAIN DEFAULT_THEME.chart
    /\ \A f \in TopFields : trim(theme[f]) # ""
    /\ \A g \in DOMAIN theme.chart : trim(theme.chart[g]) # ""

\* The parameters that decode to a JSON object.
DecodesToObject(param) ==
    /\ param.alphabet = "base64url"
    /\ param.bytes.encoding = "utf8"
    /\ param.bytes.text.syntax = "json"
    /\ isRecord(param.bytes.text.value)

\* C30: decodeThemeFromParam never raises: it returns DEFAULT_THEME for a
\* missing, empty, non-base64, non-UTF-8, non-JSON or non-object parameter,
\* and for an object a complete theme, each field either the object's
\* non-blank string or the default.
C30_NeverRaises ==
    call.fn = "decodeThemeFromParam" /\ ret # NoRet =>
        /\ ret.k = "returned"
        /\ ~DecodesToObject(call.args[1]) => ret.value = DEFAULT_THEME
        /\ DecodesToObject(call.args[1]) =>
              /\ CompleteTheme(ret.value)
              /\ \A f \in TopFields :
                    ret.value[f] \in
                        {DEFAULT_THEME[f], Property(call.args[1].bytes.text.value, f).string}
====
